---- MODULE Spec2Model ----
(***************************************************************************)
(* A model of the agentic tool-use loop (src/src/lib/llm.ts, chat and      *)
(* sendMessage) and of the credential manager of CDataProvider             *)
(* (src/unnamed/part_002: doRefreshToken, getValidToken, withAutoRefresh). *)
(*                                                                         *)
(* JavaScript runs each piece of code between two awaits to completion;    *)
(* the model's program counters name the awaits and the loop heads of the  *)
(* code, and the environment (reasoning engine, tool, token service,       *)
(* timer) acts only on a call that is in flight.                           *)
(*                                                                         *)
(* Strings that the code takes apart or builds (text blocks, error         *)
(* messages, JSON) are sequences of one-character strings.                 *)
(***************************************************************************)
EXTENDS Naturals, Integers, Sequences, FiniteSets, Bags, TLC

VARIABLES
    \* ---- chat() of llm.ts -------------------------------------------------
    apiKey,         \* getConfig().apiKey is set (truthy)
    callback,       \* onInterimUpdate was passed by the caller
    pc,             \* position of the chat() run
    messages,       \* const messages: AnthropicMessage[]
    logEntries,     \* const logEntries: LLMLogEntry[]
    response,       \* let response: AnthropicResponse
    toolUseBlocks,  \* const toolUseBlocks of the current round
    toolResults,    \* const toolResults of the current round
    toolIdx,        \* index of the for..of loop over toolUseBlocks
    toolCalls,      \* const toolCalls
    updates,        \* the updates handed to onInterimUpdate, in order
    returned,       \* the value chat() resolved with, or NoValue
    thrown,         \* the error chat() rejected with, or NoValue
    \* ---- observation of the run (not program state) -----------------------
    inFlight,       \* [engine, tool]: calls started and not yet settled
    rounds,         \* tool-use rounds begun
    sent,           \* engine requests put on the wire
    received,       \* usage of every engine response received, in order
    lastStatus,     \* HTTP status of the last engine answer, 0 before any
    invoked         \* every callTool invocation of the run, in order:
                    \* [round, id, name, outcome], outcome "pending" while in
                    \* flight, then "ok" or "err"

VARIABLES
    \* ---- CDataProvider of CDataContext ------------------------------------
    isConfigured,    \* hasCredentials()
    tokenRef,        \* tokenRef.current, NoToken for null
    tokenExpiryRef,  \* tokenExpiryRef.current, in ms
    isRefreshingRef, \* isRefreshingRef.current
    token,           \* React state token
    tools,           \* React state tools
    error,           \* React state error
    isLoading,       \* React state isLoading
    now,             \* Date.now(), in ms
    issued,          \* tokens generateJWT has produced so far
    caller           \* the asynchronous calls into the provider, one record
                     \* each: where the call stands and what it has seen

VARIABLES
    \* ---- the Chat page (AI Data Advisor) ----------------------------------
    isReady,          \* isConfigured && isLLMConfigured
    pageMessages,     \* React state messages of the page
    input,            \* React state input
    pageIsLoading,    \* React state isLoading of the page
    thinkingSteps,    \* React state thinkingSteps
    thinkingStepsRef, \* thinkingStepsRef.current
    runs              \* the handleSend calls that reached chat(), one
                      \* record each

VARIABLES
    \* ---- mcpRequest of cdata.ts -------------------------------------------
    mcpMethod,    \* "tools/list" (listMCPTools) or "tools/call" (callMCPTool)
    httpStatus,   \* response.status
    contentType,  \* response.headers.get("content-type"), <<>> for null
    httpBody,     \* the body of the response
    mcpOutcome    \* what the call settled with, NoValue while in flight

VARIABLES
    \* ---- AuthProvider and the routes of App ---------------------------------
    user,        \* React state user of AuthProvider, NoUser for null
    lastLogin,   \* the last call of login: its email and what it returned
    location     \* the path of the router's location

VARIABLES
    \* ---- SchemaProvider of SchemaContext ----------------------------------
    schemaTree,        \* React state schemaTree
    isLoadingSchema,   \* React state isLoadingSchema
    hasFetchedSchema,  \* React state hasFetchedSchema
    loads              \* the queryData calls of loadSchemaTree and
                       \* loadChildren that have not settled

VARIABLES
    \* ---- DashboardDataProvider of DashboardDataContext --------------------
    dataSources,         \* the names of the three connections of this render
    prevDataSourcesRef,  \* prevDataSourcesRef.current
    hasFetchedRef,       \* hasFetchedRef.current
    state,               \* React state state, its executedQueries left out
    fetches,             \* the fetch* calls waiting at an await, a bag
    queried,             \* per query name, the queryDataAsObjects calls made
    events               \* the events of the user the provider has handled

VARIABLES
    \* ---- SavedPromptsProvider of SavedPromptsContext -----------------------
    prompts,   \* React state prompts, the newest first
    dateNow    \* the last value Date.now() returned to savePrompt

credVars == <<isConfigured, tokenRef, tokenExpiryRef, isRefreshingRef, token,
              tools, error, isLoading, now, issued, caller>>

chatVars == <<apiKey, callback, pc, messages, logEntries, response,
              toolUseBlocks, toolResults, toolIdx, toolCalls, updates,
              returned, thrown, inFlight, rounds, sent, received, lastStatus,
              invoked>>

pageVars == <<isReady, pageMessages, input, pageIsLoading, thinkingSteps,
              thinkingStepsRef, runs>>

mcpVars == <<mcpMethod, httpStatus, contentType, httpBody, mcpOutcome>>

authVars == <<user, lastLogin, location>>

schemaVars == <<schemaTree, isLoadingSchema, hasFetchedSchema, loads>>

dashVars == <<dataSources, prevDataSourcesRef, hasFetchedRef, state, fetches,
              queried, events>>

promptVars == <<prompts, dateNow>>

\* The variables of the application around chat() and the provider.
appVars == <<pageVars, mcpVars, authVars, schemaVars, dashVars, promptVars>>

\* The variables the providers of authentication and schema do not touch.
outsideApp == <<chatVars, credVars, pageVars, mcpVars, dashVars, promptVars>>

\* All variables but those of the Chat page, but those of mcpRequest, but
\* those of AuthProvider and the router, but those of SchemaProvider.
outsidePage   == <<chatVars, credVars, mcpVars, authVars, schemaVars, dashVars,
                   promptVars>>
outsideMcp    == <<chatVars, credVars, pageVars, authVars, schemaVars, dashVars,
                   promptVars>>
outsideAuth   == <<outsideApp, schemaVars>>
outsideSchema == <<outsideApp, authVars>>

\* All variables but those of DashboardDataProvider and of the provider of
\* credentials; all variables but those of SavedPromptsProvider.
outsideDash    == <<chatVars, pageVars, mcpVars, authVars, schemaVars, promptVars>>
outsidePrompts == <<chatVars, credVars, pageVars, mcpVars, authVars, schemaVars,
                    dashVars>>

vars == <<chatVars, credVars, appVars>>

\* ---------------------------------------------------------------- bounds
\* Tool-use rounds the engine may ask for in one run.
MaxRounds == 2

\* Concurrent calls into the provider.
NumCallers == 2

\* Steps of the clock, each as long as a token is valid.
MaxTicks == 1

\* Tokens generateJWT produces; beyond that many it only fails.
MaxTokens == 2

\* handleSend calls of the Chat page that reach chat().
MaxRuns == 2

\* Lines of the body of an MCP response.
MaxLines == 2

\* Schema queries that may be unsettled at once.
MaxLoads == 2

\* Active accounts in the Salesforce catalog: one full page and one more row.
TotalRows == 16

\* Opportunities in the Salesforce catalog.
TotalContracts == 0

\* Prompts in the list of saved prompts; values of Date.now().
MaxPrompts == 3
MaxDate == 3

\* Events of the user on the dashboard: a connection changed, Refresh
\* pressed, the customer table scrolled to its end.
MaxEvents == 2

\* ------------------------------------------------------------ text helpers
NoValue == [none |-> TRUE]

RECURSIVE Join(_, _)
\* Array.prototype.join: the strings of ss with sep between neighbours.
Join(ss, sep) ==
    IF ss = <<>> THEN <<>>
    ELSE IF Len(ss) = 1 THEN ss[1]
    ELSE ss[1] \o sep \o Join(Tail(ss), sep)

Whitespace == {" ", "\n", "\t"}

\* Truthiness of String.prototype.trim(): some character is not white space.
TrimNonEmpty(s) == \E i \in 1..Len(s) : s[i] \notin Whitespace

StartsWith(s, p) == Len(s) >= Len(p) /\ SubSeq(s, 1, Len(p)) = p

RECURSIVE Filter(_, _)
\* Array.prototype.filter for blocks of one type.
Filter(bs, ty) ==
    IF bs = <<>> THEN <<>>
    ELSE IF bs[1].type = ty THEN <<bs[1]>> \o Filter(Tail(bs), ty)
    ELSE Filter(Tail(bs), ty)

\* ------------------------------------------------------- content blocks
TextBlock(t)           == [type |-> "text", text |-> t]
ToolUse(id, name, inp) == [type |-> "tool_use", id |-> id, name |-> name, input |-> inp]
ToolResult(id, c)      == [type |-> "tool_result", tool_use_id |-> id, content |-> c]

ErrorPrefix  == <<"E", "r", "r", "o", "r", ":", " ">>
UnknownError == <<"U", "n", "k", "n", "o", "w", "n", " ", "e", "r", "r", "o", "r">>

\* JSON.stringify of a tool result.  Results are JSON values: a number
\* [t |-> "num"] prints its digit, a string [t |-> "str"] is quoted.
JSONStringify(r) ==
    IF r.t = "num" THEN <<r.v>> ELSE <<"\"">> \o r.v \o <<"\"">>

\* --------------------------------------------------------------- inputs
TextA     == TextBlock(<<"a">>)
TextB     == TextBlock(<<"b">>)
TextBlank == TextBlock(<<" ">>)
Use1      == ToolUse("tu1", "queryData", "in1")
Use2      == ToolUse("tu2", "getTables", "in2")

\* The content of an engine response that asks for tools: no block at all,
\* one tool after blank text, two tools after text.
ToolUseContents == { <<>>, <<TextBlank, Use1>>, <<TextA, Use2, Use1>> }

\* The content of a response that ends the turn, and of one cut off by the
\* token limit inside a tool_use block.
EndTurnContents   == { <<>>, <<TextA, TextB>> }
MaxTokensContents == { <<TextA, Use1>> }

EngineUsages ==
    { [input_tokens |-> 1, output_tokens |-> 2],
      [input_tokens |-> 3, output_tokens |-> 1] }

EngineResponses ==
    [content : ToolUseContents, stop_reason : {"tool_use"}, usage : EngineUsages]
    \cup [content : EndTurnContents, stop_reason : {"end_turn"}, usage : EngineUsages]
    \cup [content : MaxTokensContents, stop_reason : {"max_tokens"}, usage : EngineUsages]

\* What callTool may resolve with.
ToolValues == { [t |-> "num", v |-> "3"] }

\* What callTool may reject with: an Error carrying a message, or a value
\* that is no Error.
ToolErrors ==
    { [isError |-> TRUE,  message |-> <<"4", "0", "1">>],
      [isError |-> FALSE, message |-> <<>>] }

UserMessage(text) == [role |-> "user", plain |-> TRUE, content |-> <<TextBlock(text)>>]
AssistantText(text) == [role |-> "assistant", plain |-> TRUE, content |-> <<TextBlock(text)>>]

\* conversationHistory as the Chat page builds it: plain user/assistant turns.
Histories == { <<>>, <<UserMessage(<<"q">>), AssistantText(<<"r">>)>> }

NoResponse ==
    [content |-> <<>>, stop_reason |-> "none",
     usage |-> [input_tokens |-> 0, output_tokens |-> 0]]

\* -------------------------------------------------------------- chat()
\* requestBody.messages is the messages array itself, not a copy: the entry
\* holds the reference, and `wire` records how many messages the array held
\* when JSON.stringify(requestBody) was sent.
RequestEntry ==
    [type |-> "request", data |-> [messages |-> "messages"], wire |-> Len(messages)]

ResponseEntry(resp) == [type |-> "response", data |-> resp]

ConfigError == [message |-> "Anthropic API key not configured"]
ApiError(status) == [message |-> "Anthropic API error", status |-> status]
FetchError == [message |-> "Failed to fetch"]

\* Statuses for which response.ok is false.
ErrorStatuses == {429, 500}

\* onInterimUpdate(u), when the callback was passed.
Notify(us, u) == IF callback THEN Append(us, u) ELSE us

InitChat ==
    /\ apiKey \in BOOLEAN
    /\ callback \in BOOLEAN
    /\ pc = "send"
    /\ \E h \in Histories : messages = h \o <<UserMessage(<<"h", "i">>)>>
    /\ logEntries = <<>>
    /\ response = NoResponse
    /\ toolUseBlocks = <<>>
    /\ toolResults = <<>>
    /\ toolIdx = 1
    /\ toolCalls = <<>>
    /\ updates = <<>>
    /\ returned = NoValue
    /\ thrown = NoValue
    /\ inFlight = [engine |-> 0, tool |-> 0]
    /\ rounds = 0
    /\ sent = 0
    /\ received = <<>>
    /\ lastStatus = 0
    /\ invoked = <<>>

\* sendMessage with the request entry pushed before the key is checked.
SendMessageLogsFirst ==
    /\ pc = "send"
    /\ logEntries' = Append(logEntries, RequestEntry)
    /\ IF ~apiKey
       THEN /\ pc' = "rejected"
            /\ thrown' = ConfigError
            /\ UNCHANGED <<inFlight, sent>>
       ELSE /\ inFlight' = [inFlight EXCEPT !.engine = @ + 1]
            /\ sent' = sent + 1
            /\ pc' = "fetch"
            /\ UNCHANGED thrown
    /\ UNCHANGED <<credVars, appVars, apiKey, callback, messages, response, toolUseBlocks,
                   toolResults, toolIdx, toolCalls, updates, returned,
                   rounds, received, lastStatus, invoked>>

\* sendMessage up to its await fetch(...): the key check, the request entry,
\* the request on the wire.
SendMessage ==
    /\ pc = "send"
    /\ IF ~apiKey
       THEN /\ pc' = "rejected"
            /\ thrown' = ConfigError
            /\ UNCHANGED <<logEntries, inFlight, sent>>
       ELSE /\ logEntries' = Append(logEntries, RequestEntry)
            /\ inFlight' = [inFlight EXCEPT !.engine = @ + 1]
            /\ sent' = sent + 1
            /\ pc' = "fetch"
            /\ UNCHANGED thrown
    /\ UNCHANGED <<credVars, appVars, apiKey, callback, messages, response, toolUseBlocks,
                   toolResults, toolIdx, toolCalls, updates, returned,
                   rounds, received, lastStatus, invoked>>

\* sendMessage returning the response without pushing its entry.
EngineRespondsNoLog ==
    /\ pc = "fetch"
    /\ \E resp \in EngineResponses :
        /\ resp.stop_reason = "tool_use" => rounds < MaxRounds
        /\ response' = resp
        /\ received' = Append(received, resp.usage)
    /\ lastStatus' = 200
    /\ inFlight' = [inFlight EXCEPT !.engine = @ - 1]
    /\ pc' = "loop"
    /\ UNCHANGED <<credVars, appVars, apiKey, callback, messages, logEntries, toolUseBlocks,
                   toolResults, toolIdx, toolCalls, updates, returned, thrown,
                   rounds, sent, invoked>>

\* The engine answers with a success status: the response entry is pushed
\* and sendMessage returns the response to chat().
EngineResponds ==
    /\ pc = "fetch"
    /\ \E resp \in EngineResponses :
        /\ resp.stop_reason = "tool_use" => rounds < MaxRounds
        /\ logEntries' = Append(logEntries, ResponseEntry(resp))
        /\ response' = resp
        /\ received' = Append(received, resp.usage)
    /\ lastStatus' = 200
    /\ inFlight' = [inFlight EXCEPT !.engine = @ - 1]
    /\ pc' = "loop"
    /\ UNCHANGED <<credVars, appVars, apiKey, callback, messages, toolUseBlocks, toolResults,
                   toolIdx, toolCalls, updates, returned, thrown, rounds, sent,
                   invoked>>

\* A failed engine call caught by the loop and sent again.
EngineFailsRetried ==
    /\ pc = "fetch"
    /\ \E status \in ErrorStatuses : lastStatus' = status
    /\ inFlight' = [inFlight EXCEPT !.engine = @ - 1]
    /\ pc' = "send"
    /\ UNCHANGED <<credVars, appVars, apiKey, callback, messages, logEntries, response,
                   toolUseBlocks, toolResults, toolIdx, toolCalls, updates,
                   returned, thrown, rounds, sent, received, invoked>>

\* The engine answers with a non-success status (sendMessage throws the API
\* error) or fetch itself rejects; chat() has no handler around sendMessage.
EngineFails ==
    /\ pc = "fetch"
    /\ \/ \E status \in ErrorStatuses :
            /\ thrown' = ApiError(status)
            /\ lastStatus' = status
       \/ /\ thrown' = FetchError
          /\ UNCHANGED lastStatus
    /\ inFlight' = [inFlight EXCEPT !.engine = @ - 1]
    /\ pc' = "rejected"
    /\ UNCHANGED <<credVars, appVars, apiKey, callback, messages, logEntries, response,
                   toolUseBlocks, toolResults, toolIdx, toolCalls, updates,
                   returned, rounds, sent, received, invoked>>

\* textBlocks.map((block) => block.text || "")
BlockTexts(bs) == [i \in 1..Len(bs) |-> bs[i].text]

TextOfUnjoined(resp) == Join(BlockTexts(Filter(resp.content, "text")), <<>>)

\* The text of a response: its text blocks joined by newline.
TextOf(resp) == Join(BlockTexts(Filter(resp.content, "text")), <<"\n">>)

\* The head of the loop with a thinking update for any text, blank or not.
BeginToolRoundAnyText ==
    /\ pc = "loop"
    /\ response.stop_reason = "tool_use"
    /\ updates' = IF Filter(response.content, "text") # <<>>
                  THEN Notify(updates, [type |-> "thinking", content |-> TextOf(response)])
                  ELSE updates
    /\ toolUseBlocks' = Filter(response.content, "tool_use")
    /\ toolResults' = <<>>
    /\ toolIdx' = 1
    /\ rounds' = rounds + 1
    /\ pc' = "tools"
    /\ UNCHANGED <<credVars, appVars, apiKey, callback, messages, logEntries, response, toolCalls,
                   returned, thrown, inFlight, sent, received, lastStatus,
                   invoked>>

\* The head of the while loop with stop_reason "tool_use": the thinking
\* update and the tool_use blocks of the round.
BeginToolRound ==
    /\ pc = "loop"
    /\ response.stop_reason = "tool_use"
    /\ updates' = IF Filter(response.content, "text") # <<>> /\ TrimNonEmpty(TextOf(response))
                  THEN Notify(updates, [type |-> "thinking", content |-> TextOf(response)])
                  ELSE updates
    /\ toolUseBlocks' = Filter(response.content, "tool_use")
    /\ toolResults' = <<>>
    /\ toolIdx' = 1
    /\ rounds' = rounds + 1
    /\ pc' = "tools"
    /\ UNCHANGED <<credVars, appVars, apiKey, callback, messages, logEntries, response, toolCalls,
                   returned, thrown, inFlight, sent, received, lastStatus,
                   invoked>>

\* callTool started without being awaited: the loop moves on at once.
StartToolNoAwait ==
    /\ pc = "tools"
    /\ toolIdx <= Len(toolUseBlocks)
    /\ LET toolUse == toolUseBlocks[toolIdx] IN
        /\ updates' = Notify(updates, [type |-> "tool_start", toolName |-> toolUse.name,
                                       toolInput |-> toolUse.input])
        /\ invoked' = Append(invoked, [round |-> rounds, id |-> toolUse.id,
                                        name |-> toolUse.name, outcome |-> "pending"])
    /\ inFlight' = [inFlight EXCEPT !.tool = @ + 1]
    /\ toolIdx' = toolIdx + 1
    /\ UNCHANGED <<credVars, appVars, apiKey, callback, pc, messages, logEntries, response,
                   toolUseBlocks, toolResults, toolCalls, returned,
                   thrown, rounds, sent, received, lastStatus>>

\* The for..of loop takes the next tool_use block: tool_start, then
\* callTool(name, input) is awaited.  What callTool does is left open.
StartToolBody ==
    /\ pc = "tools"
    /\ toolIdx <= Len(toolUseBlocks)
    /\ LET toolUse == toolUseBlocks[toolIdx] IN
        /\ updates' = Notify(updates, [type |-> "tool_start", toolName |-> toolUse.name,
                                       toolInput |-> toolUse.input])
        /\ invoked' = Append(invoked, [round |-> rounds, id |-> toolUse.id,
                                        name |-> toolUse.name, outcome |-> "pending"])
    /\ inFlight' = [inFlight EXCEPT !.tool = @ + 1]
    /\ pc' = "call"
    /\ UNCHANGED <<appVars, apiKey, callback, messages, logEntries, response,
                   toolUseBlocks, toolResults, toolIdx, toolCalls, returned,
                   thrown, rounds, sent, received, lastStatus>>

\* The same with a callTool that does not touch the provider.
StartTool == StartToolBody /\ UNCHANGED credVars

\* The invocation in flight (the last one started) settles with outcome o.
Settle(inv, o) == [inv EXCEPT ![Len(inv)].outcome = o]

\* A try block that pushes no toolCalls entry.
ToolResolvesUnlogged(result) ==
    /\ pc = "call"
    /\ LET toolUse == toolUseBlocks[toolIdx] IN
        /\ toolResults' = Append(toolResults, ToolResult(toolUse.id, JSONStringify(result)))
        /\ updates' = Notify(updates, [type |-> "tool_complete", toolName |-> toolUse.name,
                                       toolResult |-> result])
    /\ inFlight' = [inFlight EXCEPT !.tool = @ - 1]
    /\ invoked' = Settle(invoked, "ok")
    /\ toolIdx' = toolIdx + 1
    /\ pc' = "tools"
    /\ UNCHANGED <<appVars, apiKey, callback, messages, logEntries, response,
                   toolUseBlocks, toolCalls, returned, thrown, rounds, sent, received,
                   lastStatus>>

\* callTool resolved with result: the try block of the loop body.
ToolResolves(result) ==
    /\ pc = "call"
    /\ LET toolUse == toolUseBlocks[toolIdx] IN
        /\ toolCalls' = Append(toolCalls, [name |-> toolUse.name, result |-> result])
        /\ toolResults' = Append(toolResults, ToolResult(toolUse.id, JSONStringify(result)))
        /\ updates' = Notify(updates, [type |-> "tool_complete", toolName |-> toolUse.name,
                                       toolResult |-> result])
    /\ inFlight' = [inFlight EXCEPT !.tool = @ - 1]
    /\ invoked' = Settle(invoked, "ok")
    /\ toolIdx' = toolIdx + 1
    /\ pc' = "tools"
    /\ UNCHANGED <<appVars, apiKey, callback, messages, logEntries, response,
                   toolUseBlocks, returned, thrown, rounds, sent, received,
                   lastStatus>>

\* callTool resolves, the provider left alone.
ToolSucceeds == \E result \in ToolValues : ToolResolves(result) /\ UNCHANGED credVars

\* err instanceof Error ? err.message : "Unknown error"
ErrorMsg(err) == IF err.isError THEN err.message ELSE UnknownError

\* A catch block that only notifies and pushes no tool_result.
ToolFailsDropsResult ==
    /\ pc = "call"
    /\ \E err \in ToolErrors :
        LET toolUse == toolUseBlocks[toolIdx] IN
        updates' = Notify(updates, [type |-> "tool_error", toolName |-> toolUse.name,
                                    error |-> ErrorMsg(err)])
    /\ inFlight' = [inFlight EXCEPT !.tool = @ - 1]
    /\ invoked' = Settle(invoked, "err")
    /\ toolIdx' = toolIdx + 1
    /\ pc' = "tools"
    /\ UNCHANGED <<credVars, appVars, apiKey, callback, messages, logEntries, response,
                   toolUseBlocks, toolResults, toolCalls, returned, thrown,
                   rounds, sent, received, lastStatus>>

\* A loop body without try/catch: the tool's error rejects chat().
ToolFailsRethrows ==
    /\ pc = "call"
    /\ \E err \in ToolErrors : thrown' = err
    /\ inFlight' = [inFlight EXCEPT !.tool = @ - 1]
    /\ invoked' = Settle(invoked, "err")
    /\ pc' = "rejected"
    /\ UNCHANGED <<credVars, appVars, apiKey, callback, messages, logEntries, response,
                   toolUseBlocks, toolResults, toolIdx, toolCalls, updates,
                   returned, rounds, sent, received, lastStatus>>

\* callTool rejected with err: the catch block of the loop body.
ToolRejects(err) ==
    /\ pc = "call"
    /\ LET toolUse == toolUseBlocks[toolIdx] IN
        /\ toolResults' = Append(toolResults,
                                 ToolResult(toolUse.id, ErrorPrefix \o ErrorMsg(err)))
        /\ updates' = Notify(updates, [type |-> "tool_error", toolName |-> toolUse.name,
                                       error |-> ErrorMsg(err)])
    /\ inFlight' = [inFlight EXCEPT !.tool = @ - 1]
    /\ invoked' = Settle(invoked, "err")
    /\ toolIdx' = toolIdx + 1
    /\ pc' = "tools"
    /\ UNCHANGED <<appVars, apiKey, callback, messages, logEntries, response,
                   toolUseBlocks, toolCalls, returned, thrown, rounds, sent,
                   received, lastStatus>>

\* callTool rejects, the provider left alone.
ToolFails == \E err \in ToolErrors : ToolRejects(err) /\ UNCHANGED credVars

\* A loop that stops when a round held no tool_use block.
EndToolRoundStopsWhenEmpty ==
    /\ pc = "tools"
    /\ toolIdx > Len(toolUseBlocks)
    /\ messages' = messages \o
                   << [role |-> "assistant", plain |-> FALSE, content |-> response.content],
                      [role |-> "user", plain |-> FALSE, content |-> toolResults] >>
    /\ pc' = IF toolUseBlocks = <<>> THEN "returned" ELSE "send"
    /\ returned' = IF toolUseBlocks = <<>>
                   THEN [response |-> <<>>, toolCalls |-> toolCalls,
                         debugLogs |-> [entries |-> logEntries,
                                        totalInputTokens |-> 0, totalOutputTokens |-> 0]]
                   ELSE returned
    /\ UNCHANGED <<credVars, appVars, apiKey, callback, logEntries, response, toolUseBlocks,
                   toolResults, toolIdx, toolCalls, updates, thrown,
                   inFlight, rounds, sent, received, lastStatus, invoked>>

\* The for..of loop is exhausted: the assistant message and the user message
\* with the round's tool results are pushed, and sendMessage is called again.
EndToolRound ==
    /\ pc = "tools"
    /\ toolIdx > Len(toolUseBlocks)
    /\ messages' = messages \o
                   << [role |-> "assistant", plain |-> FALSE, content |-> response.content],
                      [role |-> "user", plain |-> FALSE, content |-> toolResults] >>
    /\ pc' = "send"
    /\ UNCHANGED <<credVars, appVars, apiKey, callback, logEntries, response, toolUseBlocks,
                   toolResults, toolIdx, toolCalls, updates, returned, thrown,
                   inFlight, rounds, sent, received, lastStatus, invoked>>

RECURSIVE SumTokens(_, _)
\* The loop over logEntries that adds up usage of the response entries.
SumTokens(entries, field) ==
    IF entries = <<>> THEN 0
    ELSE (IF entries[1].type = "response" THEN entries[1].data.usage[field] ELSE 0)
         + SumTokens(Tail(entries), field)

\* A return that reports the usage of the final response alone.
ReturnLastUsage ==
    /\ pc = "loop"
    /\ response.stop_reason # "tool_use"
    /\ returned' = [response |-> TextOf(response),
                    toolCalls |-> toolCalls,
                    debugLogs |-> [entries |-> logEntries,
                                   totalInputTokens |-> response.usage.input_tokens,
                                   totalOutputTokens |-> response.usage.output_tokens]]
    /\ pc' = "returned"
    /\ UNCHANGED <<credVars, appVars, apiKey, callback, messages, logEntries, response,
                   toolUseBlocks, toolResults, toolIdx, toolCalls, updates,
                   thrown, inFlight, rounds, sent, received, lastStatus,
                   invoked>>

\* stop_reason is not "tool_use": the final text, the totals, the return.
Return ==
    /\ pc = "loop"
    /\ response.stop_reason # "tool_use"
    /\ returned' = [response |-> TextOf(response),
                    toolCalls |-> toolCalls,
                    debugLogs |-> [entries |-> logEntries,
                                   totalInputTokens |-> SumTokens(logEntries, "input_tokens"),
                                   totalOutputTokens |-> SumTokens(logEntries, "output_tokens")]]
    /\ pc' = "returned"
    /\ UNCHANGED <<credVars, appVars, apiKey, callback, messages, logEntries, response,
                   toolUseBlocks, toolResults, toolIdx, toolCalls, updates,
                   thrown, inFlight, rounds, sent, received, lastStatus,
                   invoked>>

NextChat ==
    \/ SendMessage
    \/ EngineResponds
    \/ EngineFails
    \/ BeginToolRound
    \/ StartTool
    \/ ToolSucceeds
    \/ ToolFails
    \/ EndToolRound
    \/ Return


\* ======================================================================
\* CDataProvider: the credential manager
\* ======================================================================
NoToken == 0

\* Date.now() + (2 * 60 * 60 * 1000) - (5 * 60 * 1000)
TokenLifetimeMs == 2 * 60 * 60 * 1000
RefreshMarginMs == 5 * 60 * 1000
ValidityMs      == TokenLifetimeMs - RefreshMarginMs

\* The clock moves in steps of the validity of a token, so that the instant
\* now = expiry is met exactly.
TickMs == ValidityMs

\* The calls into the provider: each is either refreshToken() (the mount
\* effect, or a consumer of the context) or a call wrapped by withAutoRefresh.
Procs == 1..NumCallers

UpperCase == <<"A", "B", "C", "D", "E", "F", "G", "H", "I", "J", "K", "L", "M",
               "N", "O", "P", "Q", "R", "S", "T", "U", "V", "W", "X", "Y", "Z">>
LowerCase == <<"a", "b", "c", "d", "e", "f", "g", "h", "i", "j", "k", "l", "m",
               "n", "o", "p", "q", "r", "s", "t", "u", "v", "w", "x", "y", "z">>

\* String.prototype.toLowerCase
ToLowerCase(str) ==
    [i \in 1..Len(str) |->
        IF \E k \in 1..26 : UpperCase[k] = str[i]
        THEN LowerCase[CHOOSE k \in 1..26 : UpperCase[k] = str[i]]
        ELSE str[i]]

\* String.prototype.includes
Includes(str, sub) ==
    \E i \in 0..(Len(str) - Len(sub)) : SubSeq(str, i + 1, i + Len(sub)) = sub

\* The test of withAutoRefresh's catch block.
IsAuthError(err) ==
    /\ err.isError
    /\ \/ Includes(err.message, <<"4", "0", "1">>)
       \/ Includes(ToLowerCase(err.message), <<"u", "n", "a", "u", "t", "h", "o", "r", "i", "z", "e", "d">>)
       \/ Includes(ToLowerCase(err.message), <<"a", "u", "t", "h", "e", "n", "t", "i", "c", "a", "t", "i", "o", "n">>)
       \/ Includes(ToLowerCase(err.message), <<"t", "o", "k", "e", "n">>)

\* What a wrapped API call may reject with: an Error whose message names
\* the status 401, one that names the status 500, and a thrown value that
\* is no Error.
ApiErrors ==
    { [isError |-> TRUE,  message |-> <<"f", "a", "i", "l", "e", "d", ":", " ", "4", "0", "1">>],
      [isError |-> TRUE,  message |-> <<"f", "a", "i", "l", "e", "d", ":", " ", "5", "0", "0">>],
      [isError |-> FALSE, message |-> <<"4", "0", "1">>] }

NotConfigured == [isError |-> TRUE, message |-> <<"n", "o", "t", " ", "c", "o", "n", "f", "i", "g", "u", "r", "e", "d">>]
JwtError      == [isError |-> TRUE, message |-> <<"j", "w", "t">>]
ListError     == [isError |-> TRUE, message |-> <<"f", "a", "i", "l", "e", "d", ":", " ", "5", "0", "0">>]
NoError       == [isError |-> FALSE, message |-> <<>>]

\* A call that has not started.  frame: which caller of doRefreshToken is
\* waiting for it ("refresh": refreshToken, "first": getValidToken inside
\* withAutoRefresh, "retry": the catch block of withAutoRefresh).  attempts:
\* the tokens apiCall was called with, in order.
IdleCall ==
    [pc |-> "idle", frame |-> "none", newToken |-> NoToken, attempts |-> <<>>,
     firstError |-> NoError, thrown |-> NoError, result |-> NoValue]

\* A settled call keeps its outcome only: resolved (refreshToken, with no
\* value), resolved with what apiCall returned, or rejected with e.
Resolved        == [IdleCall EXCEPT !.pc = "done"]
ResolvedWith(r) == [IdleCall EXCEPT !.pc = "done", !.result = r]
Rejected(e)     == [IdleCall EXCEPT !.pc = "failed", !.thrown = e]

\* Call p has not been made yet.
CanCall(p) == caller[p].pc = "idle"

\* isTokenExpired
IsTokenExpired == tokenRef = NoToken \/ now >= tokenExpiryRef

\* getValidToken with the expiry left out of its test.
CacheValidIgnoresExpiry == tokenRef # NoToken

\* The condition under which getValidToken returns the cached token.
CacheValid == tokenRef # NoToken /\ ~IsTokenExpired

\* doRefreshToken from its call to its first await, for frame fr: the
\* configuration check, the isRefreshingRef guard, the call of generateJWT.
Enter(l, fr) ==
    IF ~isConfigured
    THEN Rejected(NotConfigured)
    ELSE IF isRefreshingRef
    THEN [l EXCEPT !.pc = "wait", !.frame = fr]
    ELSE [l EXCEPT !.pc = "jwt", !.frame = fr]

\* isRefreshingRef.current after that piece of doRefreshToken.
EnterFlag == isRefreshingRef \/ isConfigured

\* doRefreshToken returns tok to the frame that awaits it.
Resume(l, tok) ==
    CASE l.frame = "refresh" -> Resolved
      [] l.frame = "first"   -> [l EXCEPT !.pc = "api1", !.attempts = Append(@, tok)]
      [] l.frame = "retry"   -> [l EXCEPT !.pc = "api2", !.attempts = Append(@, tok)]

\* The finally block of refreshToken: setIsLoading(false) once
\* doRefreshToken has settled for it.
LoadingAfter(l) == IF l.frame = "refresh" THEN FALSE ELSE isLoading

InitCred ==
    /\ isConfigured \in BOOLEAN
    /\ tokenRef = NoToken
    /\ tokenExpiryRef = 0
    /\ isRefreshingRef = FALSE
    /\ token = NoToken
    /\ tools = <<>>
    /\ error = NoError
    /\ isLoading = TRUE
    /\ now = TickMs
    /\ issued = 0
    /\ caller = [p \in Procs |-> IdleCall]

\* refreshToken() up to the first await of doRefreshToken.
RefreshToken(p) ==
    /\ CanCall(p)
    /\ caller' = [caller EXCEPT ![p] = Enter(IdleCall, "refresh")]
    /\ isLoading' = isConfigured
    /\ isRefreshingRef' = EnterFlag
    /\ UNCHANGED <<chatVars, appVars, isConfigured, tokenRef, tokenExpiryRef, token,
                   tools, error, now, issued>>

\* withAutoRefresh(apiCall) up to its first await: getValidToken, which
\* either returns the cached token, so that apiCall starts, or calls
\* doRefreshToken.
WithAutoRefreshBody(c) ==
    /\ IF CacheValid
       THEN /\ caller' = [caller EXCEPT ![c] =
                            [IdleCall EXCEPT !.pc = "api1", !.frame = "first",
                                             !.attempts = <<tokenRef>>]]
            /\ UNCHANGED isRefreshingRef
       ELSE /\ caller' = [caller EXCEPT ![c] = Enter(IdleCall, "first")]
            /\ isRefreshingRef' = EnterFlag
    /\ UNCHANGED <<appVars, isConfigured, tokenRef, tokenExpiryRef, token,
                   tools, error, isLoading, now, issued>>

\* A wrapped call that is not callTool of a chat() run.
WithAutoRefresh(c) == CanCall(c) /\ WithAutoRefreshBody(c) /\ UNCHANGED chatVars

\* The 500 ms timer of doRefreshToken fires: the cached token is returned if
\* there is one, else the call goes on to acquire.
WaitElapses(p) ==
    /\ caller[p].pc = "wait"
    /\ IF tokenRef # NoToken
       THEN /\ caller' = [caller EXCEPT ![p] = Resume(@, tokenRef)]
            /\ isLoading' = LoadingAfter(caller[p])
            /\ UNCHANGED isRefreshingRef
       ELSE /\ caller' = [caller EXCEPT ![p] = [@ EXCEPT !.pc = "jwt"]]
            /\ isRefreshingRef' = TRUE
            /\ UNCHANGED isLoading
    /\ UNCHANGED <<chatVars, appVars, isConfigured, tokenRef, tokenExpiryRef, token,
                   tools, error, now, issued>>

\* generateJWT resolves: the token is stored with its expiry and
\* listMCPTools(newToken) is called.
GenerateJWTResolves(p) ==
    /\ caller[p].pc = "jwt"
    /\ issued < MaxTokens
    /\ issued' = issued + 1
    /\ token' = issued + 1
    /\ tokenRef' = issued + 1
    /\ tokenExpiryRef' = now + TokenLifetimeMs - RefreshMarginMs
    /\ caller' = [caller EXCEPT ![p] = [@ EXCEPT !.pc = "list", !.newToken = issued + 1]]
    /\ UNCHANGED <<chatVars, appVars, isConfigured, isRefreshingRef, tools, error,
                   isLoading, now>>

\* The catch and finally blocks of doRefreshToken for error e.
AcquisitionFails(p, e) ==
    /\ error' = e
    /\ token' = NoToken
    /\ tokenRef' = NoToken
    /\ tools' = <<>>
    /\ isRefreshingRef' = FALSE
    /\ caller' = [caller EXCEPT ![p] = Rejected(e)]
    /\ isLoading' = LoadingAfter(caller[p])
    /\ UNCHANGED <<chatVars, appVars, isConfigured, tokenExpiryRef, now, issued>>

\* generateJWT rejects.
GenerateJWTRejects(p) ==
    /\ caller[p].pc = "jwt"
    /\ AcquisitionFails(p, JwtError)

\* listMCPTools resolves: tools and error are set, the flag is cleared and
\* newToken is returned.
ListToolsResolves(p) ==
    /\ caller[p].pc = "list"
    /\ tools' = <<"queryData", "getTables">>
    /\ error' = NoError
    /\ isRefreshingRef' = FALSE
    /\ caller' = [caller EXCEPT ![p] = Resume(@, caller[p].newToken)]
    /\ isLoading' = LoadingAfter(caller[p])
    /\ UNCHANGED <<chatVars, appVars, isConfigured, tokenRef, tokenExpiryRef, token,
                   now, issued>>

\* listMCPTools rejects.
ListToolsRejects(p) ==
    /\ caller[p].pc = "list"
    /\ AcquisitionFails(p, ListError)

\* apiCall resolves with r, on the first attempt or on the retry, and
\* withAutoRefresh returns r.
ApiCallResolvesBody(c, r) ==
    /\ caller[c].pc \in {"api1", "api2"}
    /\ caller' = [caller EXCEPT ![c] = ResolvedWith(r)]
    /\ UNCHANGED <<appVars, isConfigured, tokenRef, tokenExpiryRef,
                   isRefreshingRef, token, tools, error, isLoading, now, issued>>

\* The same for a wrapped call that is not callTool of a chat() run.
ApiCallResolves(c) == \E r \in ToolValues : ApiCallResolvesBody(c, r) /\ UNCHANGED chatVars

\* The first apiCall rejects: an authentication error calls doRefreshToken
\* for the retry, any other error is thrown on.
FirstAttemptFails(c) ==
    /\ caller[c].pc = "api1"
    /\ \E e \in ApiErrors :
        LET l == [caller[c] EXCEPT !.firstError = e] IN
        IF IsAuthError(e)
        THEN /\ caller' = [caller EXCEPT ![c] = Enter(l, "retry")]
             /\ isRefreshingRef' = EnterFlag
        ELSE /\ caller' = [caller EXCEPT ![c] = Rejected(e)]
             /\ UNCHANGED isRefreshingRef
    /\ UNCHANGED <<chatVars, appVars, isConfigured, tokenRef, tokenExpiryRef, token,
                   tools, error, isLoading, now, issued>>

\* The retried apiCall rejects: its error is thrown on.
RetryFails(c) ==
    /\ caller[c].pc = "api2"
    /\ \E e \in ApiErrors : caller' = [caller EXCEPT ![c] = Rejected(e)]
    /\ UNCHANGED <<chatVars, appVars, isConfigured, tokenRef, tokenExpiryRef,
                   isRefreshingRef, token, tools, error, isLoading, now, issued>>

\* Time passes.
Tick ==
    /\ now < (MaxTicks + 1) * TickMs
    /\ now' = now + TickMs
    /\ UNCHANGED <<chatVars, appVars, isConfigured, tokenRef, tokenExpiryRef,
                   isRefreshingRef, token, tools, error, isLoading, issued, caller>>

NextCred ==
    \/ \E p \in Procs : RefreshToken(p)
    \/ \E p \in Procs : WithAutoRefresh(p)
    \/ \E p \in Procs : WaitElapses(p)
    \/ \E p \in Procs : GenerateJWTResolves(p)
    \/ \E p \in Procs : GenerateJWTRejects(p)
    \/ \E p \in Procs : ListToolsResolves(p)
    \/ \E p \in Procs : ListToolsRejects(p)
    \/ \E p \in Procs : ApiCallResolves(p)
    \/ \E p \in Procs : FirstAttemptFails(p)
    \/ \E p \in Procs : RetryFails(p)
    \/ Tick

\* The provider before its mount effect has run.
CredIdle ==
    /\ isConfigured = TRUE
    /\ tokenRef = NoToken
    /\ tokenExpiryRef = 0
    /\ isRefreshingRef = FALSE
    /\ token = NoToken
    /\ tools = <<>>
    /\ error = NoError
    /\ isLoading = TRUE
    /\ now = TickMs
    /\ issued = 0
    /\ caller = [p \in Procs |-> IdleCall]

\* The greeting the Chat page starts with (id "1").
Greeting == [role |-> "assistant", greeting |-> TRUE, content |-> <<"h", "e", "l", "l", "o">>]

\* The Chat page before any event.
PageIdle ==
    /\ isReady = TRUE
    /\ pageMessages = <<Greeting>>
    /\ input = <<>>
    /\ pageIsLoading = FALSE
    /\ thinkingSteps = <<>>
    /\ thinkingStepsRef = <<>>
    /\ runs = <<>>

\* A chat() run that is never started.
ChatIdle ==
    /\ apiKey = TRUE
    /\ callback = TRUE
    /\ pc = "send"
    /\ messages = <<UserMessage(<<"h", "i">>)>>
    /\ logEntries = <<>>
    /\ response = NoResponse
    /\ toolUseBlocks = <<>>
    /\ toolResults = <<>>
    /\ toolIdx = 1
    /\ toolCalls = <<>>
    /\ updates = <<>>
    /\ returned = NoValue
    /\ thrown = NoValue
    /\ inFlight = [engine |-> 0, tool |-> 0]
    /\ rounds = 0
    /\ sent = 0
    /\ received = <<>>
    /\ lastStatus = 0
    /\ invoked = <<>>

\* No MCP request made.
McpIdle ==
    /\ mcpMethod = "tools/list"
    /\ httpStatus = "200"
    /\ contentType = <<>>
    /\ httpBody = <<>>
    /\ mcpOutcome = NoValue

\* user === null
NoUser == [email |-> <<>>, role |-> "null"]

\* No call of login yet.
NoLogin == [made |-> FALSE, email |-> <<>>, success |-> FALSE, error |-> ""]

\* Nobody logged in, the Login page shown.
AuthIdle ==
    /\ user = NoUser
    /\ lastLogin = NoLogin
    /\ location = "/"

\* No schema loaded and none asked for.
SchemaIdle ==
    /\ schemaTree = <<>>
    /\ isLoadingSchema = FALSE
    /\ hasFetchedSchema = FALSE
    /\ loads = <<>>

\* The name of a connection that is not enabled (undefined in the code).
NoConn == "undefined"

\* The queries of the dashboard's initial load.
QueryNames == {"Customer Accounts", "Open Opportunities",
               "Tickets by Priority", "Jobs by Health"}

\* useState of DashboardDataProvider, the first render.
InitialState ==
    [customerHealth            |-> <<>>,
     customerHealthLoading     |-> TRUE,
     customerHealthLoadingMore |-> FALSE,
     customerHealthError       |-> "null",
     customerHealthHasMore     |-> TRUE,
     customerHealthOffset      |-> 0,
     contractsOffset           |-> 0,
     ticketsByPriority         |-> <<>>,
     ticketsByPriorityLoading  |-> TRUE,
     ticketsByPriorityError    |-> "null",
     jobsByHealth              |-> <<>>,
     jobsByHealthLoading       |-> TRUE,
     jobsByHealthError         |-> "null"]

\* The refs of DashboardDataProvider at the first render, nothing fetched.
DashFresh ==
    /\ prevDataSourcesRef = [zendeskConnName |-> NoConn, snowflakeConnName |-> NoConn,
                             salesforceConnName |-> NoConn]
    /\ hasFetchedRef = FALSE
    /\ state = InitialState
    /\ fetches = EmptyBag
    /\ queried = [q \in QueryNames |-> 0]
    /\ events = 0

\* The dashboard never mounted, no connection enabled.
DashIdle ==
    /\ dataSources = [zendeskConnName |-> NoConn, snowflakeConnName |-> NoConn,
                      salesforceConnName |-> NoConn]
    /\ DashFresh

\* No prompt saved.
PromptsIdle ==
    /\ prompts = <<>>
    /\ dateNow = 0

\* The pages and the MCP client of the application before any event.
AppIdle ==
    PageIdle /\ McpIdle /\ AuthIdle /\ SchemaIdle /\ DashIdle /\ PromptsIdle

\* One chat() run, the provider left alone.
Init == InitChat /\ CredIdle /\ AppIdle

Next == NextChat

Spec == Init /\ [][Next]_vars

\* The provider with its mount effect and concurrent wrapped calls, no
\* chat() run.
InitProvider == InitCred /\ ChatIdle /\ AppIdle

SpecCred == InitProvider /\ [][NextCred]_vars

\* ------------------------------------------- chat() with callTool wired in
\* The call into the provider that serves callTool of the chat() run: the
\* loop awaits each callTool, so one call is open at a time.
ToolCaller == 1

\* callTool(name, args) of the provider, called by the loop body:
\* withAutoRefresh((t) => callMCPTool(t, name, args)).
CallTool == StartToolBody /\ WithAutoRefreshBody(ToolCaller)

\* A wrapper that, after a successful retry, still reports the error of the
\* first attempt.
CallToolResolvesFirstErrorSeen ==
    \E r \in ToolValues :
        /\ ApiCallResolvesBody(ToolCaller, r)
        /\ IF caller[ToolCaller].pc = "api2"
           THEN ToolRejects(caller[ToolCaller].firstError)
           ELSE ToolResolves(r)

\* callMCPTool resolves with r: withAutoRefresh and callTool return r and
\* the loop body goes on in its try block.
CallToolResolves ==
    \E r \in ToolValues : ApiCallResolvesBody(ToolCaller, r) /\ ToolResolves(r)

\* withAutoRefresh has rejected: the catch block of the loop body runs with
\* the error it threw.
CallToolRejects ==
    /\ caller[ToolCaller].pc = "failed"
    /\ ToolRejects(caller[ToolCaller].thrown)
    /\ UNCHANGED credVars

\* A chat() run as the Chat page starts it on a fresh conversation, with the
\* API key set and handleInterimUpdate passed, before the provider holds a
\* token.
InitTool ==
    /\ InitChat /\ apiKey /\ callback /\ Len(messages) = 1
    /\ CredIdle /\ AppIdle

\* The engine answers; the usage it reports, which the tool calls do not
\* depend on, is kept to one value.
EngineRespondsTool ==
    EngineResponds /\ response'.usage = [input_tokens |-> 1, output_tokens |-> 2]

NextTool ==
    \/ SendMessage
    \/ EngineRespondsTool
    \/ EngineFails
    \/ BeginToolRound
    \/ CallTool
    \/ CallToolResolves
    \/ CallToolRejects
    \/ EndToolRound
    \/ Return
    \/ GenerateJWTResolves(ToolCaller)
    \/ GenerateJWTRejects(ToolCaller)
    \/ ListToolsResolves(ToolCaller)
    \/ ListToolsRejects(ToolCaller)
    \/ FirstAttemptFails(ToolCaller)
    \/ RetryFails(ToolCaller)

SpecTool == InitTool /\ [][NextTool]_vars

\* A run of chat() with an API key and no history, the usage the engine
\* reports left aside.
InitLive ==
    /\ InitChat /\ apiKey /\ Len(messages) = 1
    /\ CredIdle /\ AppIdle

NextLive ==
    \/ SendMessage
    \/ EngineRespondsTool
    \/ EngineFails
    \/ BeginToolRound
    \/ StartTool
    \/ ToolSucceeds
    \/ ToolFails
    \/ EndToolRound
    \/ Return

\* chat() where every step that can be taken is taken: the synchronous code
\* runs on, and every engine call and every callTool settles.
SpecLive == InitLive /\ [][NextLive]_vars /\ WF_vars(NextLive)

\* ------------------------------------- chat() with a callback that throws
\* What a callback may throw: an Error, or a value that is none.
CallbackErrors ==
    { [isError |-> TRUE, message |-> <<"c", "b">>],
      [isError |-> FALSE, message |-> <<>>] }

\* onInterimUpdate throws on the thinking update: the call is outside any
\* try block and rejects chat().
ThinkingThrows ==
    /\ pc = "loop" /\ callback
    /\ response.stop_reason = "tool_use"
    /\ Filter(response.content, "text") # <<>> /\ TrimNonEmpty(TextOf(response))
    /\ updates' = Append(updates, [type |-> "thinking", content |-> TextOf(response)])
    /\ \E e \in CallbackErrors : thrown' = e
    /\ pc' = "rejected"
    /\ UNCHANGED <<credVars, appVars, apiKey, callback, messages, logEntries, response,
                   toolUseBlocks, toolResults, toolIdx, toolCalls, returned,
                   inFlight, rounds, sent, received, lastStatus, invoked>>

\* onInterimUpdate throws on tool_start: the call precedes the try block,
\* callTool is not called and chat() rejects.
ToolStartThrows ==
    /\ pc = "tools" /\ callback
    /\ toolIdx <= Len(toolUseBlocks)
    /\ LET toolUse == toolUseBlocks[toolIdx] IN
        updates' = Append(updates, [type |-> "tool_start", toolName |-> toolUse.name,
                                    toolInput |-> toolUse.input])
    /\ \E e \in CallbackErrors : thrown' = e
    /\ pc' = "rejected"
    /\ UNCHANGED <<credVars, appVars, apiKey, callback, messages, logEntries, response,
                   toolUseBlocks, toolResults, toolIdx, toolCalls, returned,
                   inFlight, rounds, sent, received, lastStatus, invoked>>

\* callTool resolved and onInterimUpdate throws on tool_complete, inside
\* the try block after toolCalls and toolResults were pushed: the catch
\* block pushes a tool_result with the error and notifies tool_error, a
\* call that returns or throws in its turn.
ToolCompleteThrows ==
    /\ pc = "call" /\ callback
    /\ \E result \in ToolValues, e \in CallbackErrors, again \in BOOLEAN :
        LET toolUse == toolUseBlocks[toolIdx] IN
        /\ toolCalls' = Append(toolCalls, [name |-> toolUse.name, result |-> result])
        /\ toolResults' = toolResults \o
                           << ToolResult(toolUse.id, JSONStringify(result)),
                              ToolResult(toolUse.id, ErrorPrefix \o ErrorMsg(e)) >>
        /\ updates' = updates \o
                       << [type |-> "tool_complete", toolName |-> toolUse.name,
                           toolResult |-> result],
                          [type |-> "tool_error", toolName |-> toolUse.name,
                           error |-> ErrorMsg(e)] >>
        /\ IF again
           THEN /\ thrown' = e
                /\ pc' = "rejected"
                /\ UNCHANGED toolIdx
           ELSE /\ toolIdx' = toolIdx + 1
                /\ pc' = "tools"
                /\ UNCHANGED thrown
    /\ inFlight' = [inFlight EXCEPT !.tool = @ - 1]
    /\ invoked' = Settle(invoked, "ok")
    /\ UNCHANGED <<credVars, appVars, apiKey, callback, messages, logEntries, response,
                   toolUseBlocks, returned, rounds, sent, received, lastStatus>>

\* callTool rejected and onInterimUpdate throws on tool_error, inside the
\* catch block after the tool_result was pushed: chat() rejects.
ToolErrorThrows ==
    /\ pc = "call" /\ callback
    /\ \E err \in ToolErrors, e \in CallbackErrors :
        LET toolUse == toolUseBlocks[toolIdx] IN
        /\ toolResults' = Append(toolResults,
                                 ToolResult(toolUse.id, ErrorPrefix \o ErrorMsg(err)))
        /\ updates' = Append(updates, [type |-> "tool_error", toolName |-> toolUse.name,
                                       error |-> ErrorMsg(err)])
        /\ thrown' = e
    /\ pc' = "rejected"
    /\ inFlight' = [inFlight EXCEPT !.tool = @ - 1]
    /\ invoked' = Settle(invoked, "err")
    /\ UNCHANGED <<credVars, appVars, apiKey, callback, messages, logEntries, response,
                   toolUseBlocks, toolIdx, toolCalls, returned, rounds, sent,
                   received, lastStatus>>

\* A run of chat() with an API key, a callback and no history.
InitCallback ==
    /\ InitChat /\ apiKey /\ callback /\ Len(messages) = 1
    /\ CredIdle /\ AppIdle

NextCallback ==
    \/ NextLive
    \/ ThinkingThrows
    \/ ToolStartThrows
    \/ ToolCompleteThrows
    \/ ToolErrorThrows

\* chat() with a callback that returns or throws, call by call.
SpecCallback == InitCallback /\ [][NextCallback]_vars

\* ------------------------------------------------------- the Chat page
\* What the user may put into the input field: nothing, a blank, a question.
Inputs == { <<>>, <<" ">>, <<"q">> }

\* The interim updates chat() hands to handleInterimUpdate.
PageUpdates ==
    { [type |-> "thinking",      toolName |-> "",          content |-> <<"t">>],
      [type |-> "tool_start",    toolName |-> "queryData", content |-> <<>>],
      [type |-> "tool_complete", toolName |-> "queryData", content |-> <<>>],
      [type |-> "tool_error",    toolName |-> "queryData", content |-> <<>>] }

\* The order in which a run of chat() with one tool round of one tool hands
\* them over: the updates that may follow when `emitted` stands for what
\* was handed over so far (0 nothing, 1 thinking, 2 tool_start, 3 the
\* tool's outcome).
UpdatesAfter(emitted) ==
    {u \in PageUpdates :
        \/ emitted = 0 /\ u.type \in {"thinking", "tool_start"}
        \/ emitted = 1 /\ u.type = "tool_start"
        \/ emitted = 2 /\ u.type \in {"tool_complete", "tool_error"}}

EmittedAfter(u) ==
    CASE u.type = "thinking"   -> 1
      [] u.type = "tool_start" -> 2
      [] OTHER                 -> 3

\* chat() settles before any round or after a whole one.
CanSettle(run) == run.pc = "chat" /\ run.emitted \in {0, 3}

\* The request entries of debugLogs as far as handleSend reads them: the
\* blocks of the messages of one request.
QueryBlock == [type |-> "tool_use", name |-> "queryData", input |-> [query |-> "sql"]]
OtherBlock == [type |-> "tool_use", name |-> "getTables", input |-> [query |-> ""]]

\* What chat() may resolve with.
ChatResults ==
    { [response |-> <<"o", "k">>, toolCalls |-> <<>>,
       debugLogs |-> [entries |-> << [type |-> "request", blocks |-> <<>>],
                                     [type |-> "response", blocks |-> <<>>] >>]],
      [response |-> <<>>, toolCalls |-> <<[name |-> "queryData"]>>,
       debugLogs |-> [entries |-> << [type |-> "request", blocks |-> <<>>],
                                     [type |-> "response", blocks |-> <<QueryBlock>>],
                                     [type |-> "request", blocks |-> <<OtherBlock, QueryBlock>>],
                                     [type |-> "response", blocks |-> <<>>] >>]] }

\* What chat() may reject with: the errors sendMessage throws.
ChatErrors ==
    { [isError |-> TRUE, message |-> <<"n", "o", " ", "k", "e", "y">>],
      [isError |-> TRUE, message |-> <<"A", "P", "I", " ", "5", "0", "0">>] }

\* What chat() resolves with after that: toolCalls and a second request
\* only if a tool round was run.
ChatResultsAfter(emitted) ==
    {res \in ChatResults : (Len(res.debugLogs.entries) > 2) <=> (emitted = 3)}

SorryPrefix ==
    <<"S", "o", "r", "r", "y", ",", " ", "I", " ", "e", "n", "c", "o", "u", "n",
      "t", "e", "r", "e", "d", " ", "a", "n", " ", "e", "r", "r", "o", "r", ":", " ">>

\* undefined when the list is empty.
OrUndefined(list) == IF Len(list) > 0 THEN list ELSE NoValue

\* The button is disabled.
SendDisabled == ~TrimNonEmpty(input) \/ pageIsLoading \/ ~isReady

\* history of handleSend: the messages but the greeting, role and content.
HistoryOf(msgs) ==
    LET kept == SelectSeq(msgs, LAMBDA msg : ~msg.greeting)
    IN  [i \in 1..Len(kept) |-> [role |-> kept[i].role, content |-> kept[i].content]]

RECURSIVE LastPending(_, _, _)
\* The index of the last step of toolName that is pending, from i down; 0
\* if there is none.
LastPending(steps, toolName, i) ==
    IF i = 0 THEN 0
    ELSE IF steps[i].toolName = toolName /\ steps[i].status = "pending" THEN i
    ELSE LastPending(steps, toolName, i - 1)

\* newSteps of handleInterimUpdate for update u on prev.
NewSteps(prev, u) ==
    CASE u.type = "thinking" ->
            Append(prev, [type |-> u.type, toolName |-> "", content |-> u.content,
                          status |-> "complete"])
      [] u.type = "tool_start" ->
            Append(prev, [type |-> u.type, toolName |-> u.toolName, content |-> <<>>,
                          status |-> "pending"])
      [] u.type \in {"tool_complete", "tool_error"} ->
            LET i == LastPending(prev, u.toolName, Len(prev)) IN
            IF i = 0 THEN prev
            ELSE [prev EXCEPT ![i].status =
                      IF u.type = "tool_complete" THEN "complete" ELSE "error"]
      [] OTHER -> prev

RECURSIVE ExtractQueries(_)
\* extractedQueries: the queryData tool_use blocks with a query, of the
\* request entries, in order.
ExtractQueries(entries) ==
    IF entries = <<>> THEN <<>>
    ELSE (IF entries[1].type = "request"
          THEN LET hits == SelectSeq(entries[1].blocks,
                               LAMBDA b : b.type = "tool_use" /\ b.name = "queryData"
                                          /\ b.input.query # "")
               IN  [i \in 1..Len(hits) |-> [sql |-> hits[i].input.query,
                                            toolName |-> hits[i].name]]
          ELSE <<>>)
         \o ExtractQueries(Tail(entries))

\* The page as it is mounted.
InitPage ==
    /\ isReady \in BOOLEAN
    /\ pageMessages = <<Greeting>>
    /\ input = <<>>
    /\ pageIsLoading = FALSE
    /\ thinkingSteps = <<>>
    /\ thinkingStepsRef = <<>>
    /\ runs = <<>>

\* onChange of the input field, handleSuggestedQuery, handleRunSavedPrompt.
SetInput ==
    /\ \E text \in Inputs : input' = text
    /\ input' # input
    /\ UNCHANGED <<outsidePage, isReady, pageMessages, pageIsLoading,
                   thinkingSteps, thinkingStepsRef, runs>>

\* handleSend up to its await of chat().
HandleSend ==
    /\ TrimNonEmpty(input) /\ isReady
    /\ Len(runs) < MaxRuns
    /\ pageMessages' = Append(pageMessages,
                              [role |-> "user", greeting |-> FALSE, content |-> input])
    /\ input' = <<>>
    /\ pageIsLoading' = TRUE
    /\ thinkingSteps' = <<>>
    /\ thinkingStepsRef' = <<>>
    /\ runs' = Append(runs, [pc |-> "chat", userInput |-> input,
                             history |-> HistoryOf(pageMessages), error |-> NoError,
                             emitted |-> 0])
    /\ UNCHANGED <<outsidePage, isReady>>

\* onClick of the Send button, which can be clicked unless disabled.
ClickSend == ~SendDisabled /\ HandleSend

\* onKeyDown of the input field: e.key === "Enter" && !e.shiftKey &&
\* handleSend().  Any other key leaves it to onChange.
KeyDown ==
    \E key \in {"Enter", "a"}, shiftKey \in BOOLEAN :
        key = "Enter" /\ ~shiftKey /\ HandleSend

\* handleInterimUpdate(u), called by run r.
HandleInterimUpdate(r) ==
    /\ runs[r].pc = "chat"
    /\ \E u \in UpdatesAfter(runs[r].emitted) :
        /\ thinkingSteps' = NewSteps(thinkingSteps, u)
        /\ thinkingStepsRef' = NewSteps(thinkingSteps, u)
        /\ runs' = [runs EXCEPT ![r].emitted = EmittedAfter(u)]
    /\ UNCHANGED <<outsidePage, isReady, pageMessages, input,
                   pageIsLoading>>

\* chat() of run r resolves: the assistant message, then the finally block.
ChatResolves(r) ==
    /\ CanSettle(runs[r])
    /\ \E res \in ChatResultsAfter(runs[r].emitted) :
        pageMessages' = Append(pageMessages,
            [role |-> "assistant", greeting |-> FALSE, content |-> res.response,
             toolCalls |-> OrUndefined(res.toolCalls),
             processingSteps |-> OrUndefined(thinkingStepsRef),
             extractedQueries |-> OrUndefined(ExtractQueries(res.debugLogs.entries))])
    /\ runs' = [runs EXCEPT ![r].pc = "done"]
    /\ pageIsLoading' = FALSE
    /\ thinkingSteps' = <<>>
    /\ UNCHANGED <<outsidePage, isReady, input, thinkingStepsRef>>

\* A handleSend without its finally block.
ChatRejectsNoFinally(r) ==
    /\ CanSettle(runs[r])
    /\ \E err \in ChatErrors :
        /\ pageMessages' = Append(pageMessages,
               [role |-> "assistant", greeting |-> FALSE,
                content |-> SorryPrefix \o ErrorMsg(err)])
        /\ runs' = [runs EXCEPT ![r].pc = "failed", ![r].error = err]
    /\ UNCHANGED <<outsidePage, isReady, input, thinkingStepsRef,
                   pageIsLoading, thinkingSteps>>

\* chat() of run r rejects: the catch block, then the finally block.
ChatRejects(r) ==
    /\ CanSettle(runs[r])
    /\ \E err \in ChatErrors :
        /\ pageMessages' = Append(pageMessages,
               [role |-> "assistant", greeting |-> FALSE,
                content |-> SorryPrefix \o ErrorMsg(err)])
        /\ runs' = [runs EXCEPT ![r].pc = "failed", ![r].error = err]
    /\ pageIsLoading' = FALSE
    /\ thinkingSteps' = <<>>
    /\ UNCHANGED <<outsidePage, isReady, input, thinkingStepsRef>>

NextPage ==
    \/ SetInput
    \/ ClickSend
    \/ KeyDown
    \/ \E r \in 1..Len(runs) : HandleInterimUpdate(r)
    \/ \E r \in 1..Len(runs) : ChatResolves(r)
    \/ \E r \in 1..Len(runs) : ChatRejects(r)

\* The Chat page with its user and the runs it starts, chat() seen from
\* outside.
InitPageSpec ==
    /\ ChatIdle /\ CredIdle /\ McpIdle /\ AuthIdle /\ SchemaIdle
    /\ DashIdle /\ PromptsIdle
    /\ InitPage

SpecPage == InitPageSpec /\ [][NextPage]_vars

\* ------------------------------------------------- mcpRequest of cdata.ts
\* Texts (bodies, lines, header values, messages) are sequences of lexemes:
\* a punctuation mark, a white-space character, a JSON literal, a word.
WsTokens     == {" ", "\n", "\r", "\t"}
NumberTokens == {"0", "1", "2"}
StringTokens == {"\"result\"", "\"error\"", "\"message\"", "\"tools\"", "\"boom\""}

\* JavaScript values as JSON.parse builds them.
Undefined     == [type |-> "undefined"]
JNull         == [type |-> "null"]
JNum(tok)     == [type |-> "number", tok |-> tok]
JStr(tok)     == [type |-> "string", tok |-> tok]
JObj(members) == [type |-> "object", members |-> members]

RECURSIVE GetFrom(_, _, _)
\* members[key] of an object literal: the last member of that key wins.
GetFrom(members, key, i) ==
    IF i = 0 THEN Undefined
    ELSE IF members[i].key = key THEN members[i].value
    ELSE GetFrom(members, key, i - 1)

\* v.key: undefined unless v is an object holding key.
Get(v, key) ==
    IF v.type = "object" THEN GetFrom(v.members, key, Len(v.members)) ELSE Undefined

\* if (v)
Truthy(v) ==
    CASE v.type = "object" -> TRUE
      [] v.type = "number" -> v.tok # "0"
      [] v.type = "string" -> v.tok # "\"\""
      [] OTHER             -> FALSE

RECURSIVE SkipWs(_, _)
\* The first index from i on that holds no white space.
SkipWs(ts, i) == IF i <= Len(ts) /\ ts[i] \in WsTokens THEN SkipWs(ts, i + 1) ELSE i

ParseFail == [ok |-> FALSE, value |-> Undefined, next |-> 0]
ParseOk(v, next) == [ok |-> TRUE, value |-> v, next |-> next]

RECURSIVE ParseValue(_, _)
RECURSIVE ParseMembers(_, _, _)
\* JSON.parse: a value from index i on.
ParseValue(ts, i) ==
    LET j == SkipWs(ts, i) IN
    IF j > Len(ts) THEN ParseFail
    ELSE IF ts[j] = "null" THEN ParseOk(JNull, j + 1)
    ELSE IF ts[j] \in NumberTokens THEN ParseOk(JNum(ts[j]), j + 1)
    ELSE IF ts[j] \in StringTokens THEN ParseOk(JStr(ts[j]), j + 1)
    ELSE IF ts[j] = "{"
    THEN LET k == SkipWs(ts, j + 1) IN
         IF k <= Len(ts) /\ ts[k] = "}" THEN ParseOk(JObj(<<>>), k + 1)
         ELSE ParseMembers(ts, k, <<>>)
    ELSE ParseFail

\* JSON.parse: the members of an object from index i on, acc those read.
ParseMembers(ts, i, acc) ==
    LET j == SkipWs(ts, i) IN
    IF j > Len(ts) \/ ts[j] \notin StringTokens THEN ParseFail
    ELSE LET c == SkipWs(ts, j + 1) IN
    IF c > Len(ts) \/ ts[c] # ":" THEN ParseFail
    ELSE LET v == ParseValue(ts, c + 1) IN
    IF ~v.ok THEN ParseFail
    ELSE LET n    == SkipWs(ts, v.next)
             acc2 == Append(acc, [key |-> ts[j], value |-> v.value])
         IN  IF n > Len(ts) THEN ParseFail
             ELSE IF ts[n] = "}" THEN ParseOk(JObj(acc2), n + 1)
             ELSE IF ts[n] = "," THEN ParseMembers(ts, n + 1, acc2)
             ELSE ParseFail

\* JSON.parse(text): the value, or not ok where it throws.
JSONParse(ts) ==
    LET v == ParseValue(ts, 1) IN
    IF v.ok /\ SkipWs(ts, v.next) > Len(ts) THEN v ELSE ParseFail

RECURSIVE Split(_, _, _)
\* String.prototype.split(sep) for a one-lexeme separator; cur is the piece
\* being read.
Split(ts, sep, cur) ==
    IF ts = <<>> THEN <<cur>>
    ELSE IF ts[1] = sep THEN <<cur>> \o Split(Tail(ts), sep, <<>>)
    ELSE Split(Tail(ts), sep, Append(cur, ts[1]))

\* line.slice(n)
Slice(ts, n) == SubSeq(ts, n + 1, Len(ts))

\* Truthiness of jsonStr.trim().
TrimmedNonEmpty(ts) == \E i \in 1..Len(ts) : ts[i] \notin WsTokens

DataPrefix == <<"data:", " ">>

RECURSIVE LastDataFirstWins(_, _)
\* A loop that keeps the first data line it could parse.
LastDataFirstWins(lines, data) ==
    IF lines = <<>> THEN data
    ELSE LET line    == lines[1]
             jsonStr == Slice(line, Len(DataPrefix))
             parsed  == JSONParse(jsonStr)
         IN  LastDataFirstWins(Tail(lines),
                      IF data.type = "null" /\ StartsWith(line, DataPrefix)
                         /\ TrimmedNonEmpty(jsonStr) /\ parsed.ok
                      THEN parsed.value ELSE data)

RECURSIVE LastData(_, _)
\* The for..of loop over lines: data after the loop, starting from data.
LastData(lines, data) ==
    IF lines = <<>> THEN data
    ELSE LET line    == lines[1]
             jsonStr == Slice(line, Len(DataPrefix))
             parsed  == JSONParse(jsonStr)
         IN  LastData(Tail(lines),
                      IF StartsWith(line, DataPrefix) /\ TrimmedNonEmpty(jsonStr) /\ parsed.ok
                      THEN parsed.value ELSE data)

Returns(v)        == [kind |-> "return", value |-> v]
Throws(name, msg) == [kind |-> "throw", name |-> name, message |-> msg]

\* new Error(v).message: String(v), empty for undefined.
MessageOf(v) ==
    CASE v.type = "undefined"            -> <<>>
      [] v.type \in {"number", "string"} -> <<v.tok>>
      [] v.type = "null"                 -> <<"null">>
      [] OTHER                           -> <<"[object Object]">>

\* A payload whose error member is never looked at.
ErrorOrResultUnchecked(data) ==
    IF data.type \in {"null", "undefined"}
    THEN Throws("TypeError", <<"Cannot read properties of ", data.type>>)
    ELSE Returns(Get(data, "\"result\""))

\* data.error is read: a TypeError if data is null, else the error is
\* thrown if there is one, else data.result is returned.
ErrorOrResult(data) ==
    IF data.type \in {"null", "undefined"}
    THEN Throws("TypeError", <<"Cannot read properties of ", data.type>>)
    ELSE IF Truthy(Get(data, "\"error\""))
    THEN Throws("Error", MessageOf(Get(Get(data, "\"error\""), "\"message\"")))
    ELSE Returns(Get(data, "\"result\""))

\* Statuses with response.ok.
OkStatuses == {"200"}

\* mcpRequest once fetch has answered with status, content type and body.
McpRequest(status, ctype, bodyText) ==
    IF status \notin OkStatuses
    THEN Throws("Error", <<"MCP request failed: ", status>>)
    ELSE IF Includes(ctype, <<"text/event-stream">>)
    THEN LET data == LastData(Split(bodyText, "\n", <<>>), JNull) IN
         IF ~Truthy(data)
         THEN Throws("Error", <<"No valid JSON data in SSE response">>)
         ELSE ErrorOrResult(data)
    ELSE LET parsed == JSONParse(bodyText) IN
         IF ~parsed.ok THEN Throws("SyntaxError", <<"Unexpected token">>)
         ELSE ErrorOrResult(parsed.value)

\* (result as { tools }).tools of listMCPTools, on what mcpRequest settled
\* with.
ToolsOf(o) ==
    IF o.kind = "throw" THEN o
    ELSE IF o.value.type \in {"null", "undefined"}
    THEN Throws("TypeError", <<"Cannot read properties of ", o.value.type>>)
    ELSE Returns(Get(o.value, "\"tools\""))

\* What listMCPTools and callMCPTool make of mcpRequest's outcome.
SettledAs(method, o) == IF method = "tools/list" THEN ToolsOf(o) ELSE o

\* JSON-RPC responses, and the lines a body is made of.
ResultJson(n) == <<"{", "\"result\"", ":", n, "}">>
ToolsJson     == <<"{", "\"result\"", ":", "{", "\"tools\"", ":", "1", "}", "}">>
ErrorJson     == <<"{", "\"error\"", ":", "{", "\"message\"", ":", "\"boom\"", "}", "}">>

Lines ==
    { DataPrefix \o ResultJson("1"),
      DataPrefix \o ToolsJson,
      DataPrefix \o ErrorJson,
      DataPrefix \o <<"{", "\"result\"", ":">>,
      DataPrefix \o <<"null">>,
      DataPrefix,
      <<"data:">> \o ResultJson("2"),
      <<"event:", " ", "message">>,
      <<>>,
      ResultJson("2"),
      ToolsJson,
      ErrorJson }

Bodies ==
    { Join(ls, <<"\n">>) : ls \in UNION { [1..n -> Lines] : n \in 0..MaxLines } }

ContentTypes ==
    { <<>>, <<"application/json">>, <<"text/event-stream">>,
      <<"text/event-stream", ";", " ", "charset=utf-8">> }

\* fetch has answered a request of listMCPTools or callMCPTool.
InitMcp ==
    /\ mcpMethod \in {"tools/list", "tools/call"}
    /\ httpStatus \in {"200", "401", "500"}
    /\ contentType \in ContentTypes
    /\ httpBody \in Bodies
    /\ mcpOutcome = NoValue

\* listMCPTools settles.
ListMCPTools ==
    /\ mcpMethod = "tools/list" /\ mcpOutcome = NoValue
    /\ mcpOutcome' = ToolsOf(McpRequest(httpStatus, contentType, httpBody))
    /\ UNCHANGED <<outsideMcp, mcpMethod, httpStatus, contentType, httpBody>>

\* callMCPTool settles.
CallMCPTool ==
    /\ mcpMethod = "tools/call" /\ mcpOutcome = NoValue
    /\ mcpOutcome' = McpRequest(httpStatus, contentType, httpBody)
    /\ UNCHANGED <<outsideMcp, mcpMethod, httpStatus, contentType, httpBody>>

NextMcp == ListMCPTools \/ CallMCPTool

InitMcpSpec ==
    /\ ChatIdle /\ CredIdle /\ PageIdle /\ AuthIdle /\ SchemaIdle
    /\ DashIdle /\ PromptsIdle
    /\ InitMcp

\* One MCP request, from the answer of fetch to the outcome.
SpecMcp == InitMcpSpec /\ [][NextMcp]_vars

\* --------------------------------------- AuthProvider and the routes of App
AdminEmail == <<"a", "d", "m", "i", "n", "@", "m", "y", "c", "o", "m", "p", "a", "n", "y", ".", "c", "o", "m">>
UserEmail  == <<"u", "s", "e", "r", "@", "m", "y", "c", "o", "m", "p", "a", "n", "y", ".", "c", "o", "m">>

RECURSIVE TrimStart(_)
\* String.prototype.trim, its two halves.
TrimStart(str) ==
    IF str # <<>> /\ str[1] \in Whitespace THEN TrimStart(Tail(str)) ELSE str

RECURSIVE TrimEnd(_)
TrimEnd(str) ==
    IF str # <<>> /\ str[Len(str)] \in Whitespace
    THEN TrimEnd(SubSeq(str, 1, Len(str) - 1)) ELSE str

Trim(str) == TrimEnd(TrimStart(str))

\* The properties every object literal inherits from Object.prototype, as
\* far as the emails tried can name them.
ObjectPrototypeKeys == { <<"c", "o", "n", "s", "t", "r", "u", "c", "t", "o", "r">>, <<"t", "o", "S", "t", "r", "i", "n", "g">> }

\* ALLOWED_<<"u", "s", "e", "r", "@", "m", "y", "c", "o", "m", "p", "a", "n", "y", ".", "c", "o", "m">>S[key].role, "missing" where ALLOWED_<<"u", "s", "e", "r", "@", "m", "y", "c", "o", "m", "p", "a", "n", "y", ".", "c", "o", "m">>S[key] is undefined:
\* an own entry has its role, an inherited property has none.
RoleOfEntry(key) ==
    CASE key = AdminEmail -> "admin"
      [] key = UserEmail  -> "user"
      [] key \in ObjectPrototypeKeys -> "undefined"
      [] OTHER -> "missing"

\* The emails tried at the Login page.
Emails ==
    { <<"a", "d", "m", "i", "n", "@", "m", "y", "c", "o", "m", "p", "a", "n", "y", ".", "c", "o", "m">>,
      <<" ", "A", "d", "m", "i", "n", "@", "M", "y", "C", "o", "m", "p", "a", "n", "y", ".", "c", "o", "m", " ">>,
      <<"u", "s", "e", "r", "@", "m", "y", "c", "o", "m", "p", "a", "n", "y", ".", "c", "o", "m">>,
      <<"U", "S", "E", "R", "@", "M", "Y", "C", "O", "M", "P", "A", "N", "Y", ".", "C", "O", "M">>,
      <<"e", "v", "e", "@", "m", "y", "c", "o", "m", "p", "a", "n", "y", ".", "c", "o", "m">>,
      <<>>,
      <<"c", "o", "n", "s", "t", "r", "u", "c", "t", "o", "r">>,
      <<"t", "o", "S", "t", "r", "i", "n", "g">> }

LoginError == "Use admin@mycompany.com or user@mycompany.com"

\* The paths the browser may be sent to.
Paths == {"/", "/dashboard", "/chat", "/explorer", "/tickets", "/settings", "/help"}

\* allNavItems of AppSidebar: path and adminOnly.
AllNavItems ==
    << [path |-> "/dashboard", adminOnly |-> FALSE],
       [path |-> "/chat",      adminOnly |-> TRUE],
       [path |-> "/explorer",  adminOnly |-> FALSE] >>

\* navItems of AppSidebar.
NavItems == SelectSeq(AllNavItems, LAMBDA item : ~item.adminOnly \/ user.role = "admin")

IsAuthenticated == user # NoUser

AdminAllowedUnlessUser == user.role # "user"

\* RequireAdmin lets its children through.
AdminAllowed == user.role = "admin"

\* What AppRoutes renders at the location: a page, or a Navigate element
\* with its target.
Rendered ==
    IF location = "/" THEN [page |-> "Login", to |-> ""]
    ELSE IF ~IsAuthenticated THEN [page |-> "Navigate", to |-> "/"]
    ELSE CASE location = "/dashboard" -> [page |-> "Dashboard", to |-> ""]
           [] location = "/chat" ->
                 IF ~AdminAllowed THEN [page |-> "Navigate", to |-> "/dashboard"]
                 ELSE [page |-> "Chat", to |-> ""]
           [] location = "/explorer" -> [page |-> "DataExplorer", to |-> ""]
           [] location = "/tickets"  -> [page |-> "Tickets", to |-> ""]
           [] location = "/settings" -> [page |-> "Settings", to |-> ""]
           [] OTHER -> [page |-> "NotFound", to |-> ""]

\* AppLayout, and with it AppSidebar, is on screen.
SidebarShown == Rendered.page \notin {"Login", "Navigate"}

InitAuth == AuthIdle

\* loadSchemaTree() up to its first await: the call of queryData on
\* sys_catalogs (some connection is enabled).
CatalogsLoad == [kind |-> "catalogs", path |-> <<>>, isAdmin |-> FALSE]

\* The effects of SchemaProvider that run when setUser has stored a new
\* user: the reset of a fetched schema, then the load for whoever is logged
\* in.
UserChanged(isAuthenticated) ==
    LET load == isAuthenticated /\ token # NoToken /\ isConfigured /\ ~isLoading
    IN  /\ load => Len(loads) < MaxLoads
        /\ schemaTree' = IF hasFetchedSchema THEN <<>> ELSE schemaTree
        /\ hasFetchedSchema' = load
        /\ isLoadingSchema' = (load \/ isLoadingSchema)
        /\ loads' = IF load THEN Append(loads, CatalogsLoad) ELSE loads

\* login(email, password), called by the Login page.
Login ==
    /\ Rendered.page = "Login"
    /\ \E email \in Emails, password \in {"", "pw"} :
        LET normalizedEmail == Trim(ToLowerCase(email))
            role            == RoleOfEntry(normalizedEmail)
        IN  IF role = "missing"
            THEN /\ lastLogin' = [made |-> TRUE, email |-> email, success |-> FALSE,
                                  error |-> LoginError]
                 /\ UNCHANGED <<user, schemaVars>>
            ELSE /\ user' = [email |-> normalizedEmail, role |-> role]
                 /\ lastLogin' = [made |-> TRUE, email |-> email, success |-> TRUE,
                                  error |-> ""]
                 /\ UserChanged(TRUE)
    /\ UNCHANGED <<outsideApp, location>>

\* handleLogout of AppSidebar: logout(), then navigate("/").
HandleLogout ==
    /\ SidebarShown
    /\ user' = NoUser
    /\ location' = "/"
    /\ UserChanged(FALSE)
    /\ UNCHANGED <<outsideApp, lastLogin>>

\* A NavLink of the sidebar is followed.
FollowNavLink ==
    /\ SidebarShown
    /\ \E i \in 1..Len(NavItems) : location' = NavItems[i].path
    /\ location' # location
    /\ UNCHANGED <<outsideAuth, user, lastLogin>>

\* The browser is sent to a path: address bar, link, history.
OpenPath ==
    /\ \E path \in Paths : location' = path
    /\ location' # location
    /\ UNCHANGED <<outsideAuth, user, lastLogin>>

\* A rendered Navigate element replaces the location.
Redirect ==
    /\ Rendered.page = "Navigate"
    /\ location' = Rendered.to
    /\ UNCHANGED <<outsideAuth, user, lastLogin>>

NextAuth == Login \/ HandleLogout \/ FollowNavLink \/ OpenPath \/ Redirect

InitAuthSpec ==
    /\ ChatIdle /\ CredIdle /\ PageIdle /\ McpIdle /\ SchemaIdle
    /\ DashIdle /\ PromptsIdle
    /\ InitAuth

\* Logging in and out and moving between the routes.
SpecAuth == InitAuthSpec /\ [][NextAuth]_vars

\* ---------------------------------------- SchemaProvider of SchemaContext
\* USER_ALLOWED_SCHEMA: schema -> table -> columns.
UserAllowedSchema ==
    [ Salesforce |->
        [ Account |-> <<"Id", "Name", "Industry", "AnnualRevenue", "Rating",
                        "CustomerPriority__c", "Active__c">>,
          Opportunity |-> <<"Id", "Name", "Amount", "CloseDate", "StageName",
                            "Probability", "AccountId", "IsClosed">> ],
      Zendesk |->
        [ Tickets |-> <<"Id", "Priority", "Status", "AccountId">> ],
      TELEMETRY |->
        [ SYNC_USAGE |-> <<"LASTTELEMETRYEVENT", "S_STANDARDJOBRUNS",
                           "REVENUEBUCKETLAST12M", "ACCOUNT_ID">> ] ]

\* Array.prototype.includes
SeqIncludes(seq, x) == \E i \in 1..Len(seq) : seq[i] = x

IsSchemaAllowed(isAdmin, schemaName) ==
    isAdmin \/ schemaName \in DOMAIN UserAllowedSchema

IsTableAllowed(isAdmin, schemaName, tableName) ==
    isAdmin \/ (/\ schemaName \in DOMAIN UserAllowedSchema
                /\ tableName \in DOMAIN UserAllowedSchema[schemaName])

IsColumnAllowed(isAdmin, schemaName, tableName, columnName) ==
    isAdmin \/ (/\ schemaName \in DOMAIN UserAllowedSchema
                /\ tableName \in DOMAIN UserAllowedSchema[schemaName]
                /\ SeqIncludes(UserAllowedSchema[schemaName][tableName], columnName))

\* What Embedded Cloud holds: the rows of sys_catalogs, of sys_tables
\* (catalog, schema, table, in the order of the fallback query) and of
\* sys_tablecolumns for each table (column, data type).
SysCatalogs == << <<"Legacy">>, <<"SF">> >>

SysTables ==
    << <<"SF", "Internal", "Audit">>,
       <<"SF", "Salesforce", "Account">>,
       <<"SF", "Salesforce", "Lead">> >>

SysTableColumns == << <<"Id", "VARCHAR">>, <<"Phone", "VARCHAR">> >>

\* The names of the enabled data sources.
EnabledConnectionNames == {"SF"}

\* A tree item as the loaders create it; isLoading is absent, hence falsy.
Item(type, name) ==
    [type |-> type, name |-> name, children |-> <<>>, isExpanded |-> FALSE,
     isLoading |-> FALSE]

RECURSIVE Distinct(_)
\* SELECT DISTINCT over one column.
Distinct(names) ==
    IF names = <<>> THEN <<>>
    ELSE LET front == Distinct(SubSeq(names, 1, Len(names) - 1))
         IN  IF SeqIncludes(front, names[Len(names)]) THEN front
             ELSE Append(front, names[Len(names)])

Column(rows, k) == [i \in 1..Len(rows) |-> rows[i][k]]

\* The rows the three queries of loadChildren return.
SchemaRows(catalogName) ==
    Distinct(Column(SelectSeq(SysTables, LAMBDA row : row[1] = catalogName), 2))

TableRows(catalogName, schemaName) ==
    Column(SelectSeq(SysTables,
                     LAMBDA row : row[1] = catalogName /\ row[2] = schemaName), 3)

ColumnRows(catalogName, schemaName, tableName) ==
    IF \E i \in 1..Len(SysTables) : SysTables[i] = <<catalogName, schemaName, tableName>>
    THEN Column(SysTableColumns, 1) ELSE <<>>

Items(type, names) == [i \in 1..Len(names) |-> Item(type, names[i])]

\* The updaters passed to updateTree.
ApplyUpdater(item, up) ==
    CASE up.kind = "loading"  -> [item EXCEPT !.isLoading = TRUE]
      [] up.kind = "loaded"   -> [item EXCEPT !.children = up.children,
                                              !.isLoading = FALSE,
                                              !.isExpanded = TRUE]
      [] up.kind = "failed"   -> [item EXCEPT !.isLoading = FALSE]
      [] up.kind = "collapse" -> [item EXCEPT !.isExpanded = FALSE]
      [] up.kind = "expand"   -> [item EXCEPT !.isExpanded = TRUE]

RECURSIVE UpdateTree(_, _, _, _)
\* updateTree(items, pathIndex, updater) for the path of the call.
UpdateTree(items, path, pathIndex, up) ==
    [k \in 1..Len(items) |->
        IF items[k].name = path[pathIndex]
        THEN IF pathIndex = Len(path)
             THEN ApplyUpdater(items[k], up)
             ELSE [items[k] EXCEPT
                      !.children = UpdateTree(@, path, pathIndex + 1, up)]
        ELSE items[k]]

RECURSIVE TreeOfTables(_)
\* The fallback of loadSchemaTree: catalogMap built from the rows of
\* sys_tables, a connection per enabled catalog, its schemas, their tables.
TreeOfTables(rows) ==
    IF rows = <<>> THEN <<>>
    ELSE LET tree        == TreeOfTables(SubSeq(rows, 1, Len(rows) - 1))
             row         == rows[Len(rows)]
             catalogName == row[1]
             schemaName  == row[2]
             tableName   == row[3]
             withCatalog ==
                 IF \E k \in 1..Len(tree) : tree[k].name = catalogName THEN tree
                 ELSE Append(tree, Item("connection", catalogName))
             c == CHOOSE k \in 1..Len(withCatalog) : withCatalog[k].name = catalogName
             schemas == withCatalog[c].children
             withSchema ==
                 IF \E k \in 1..Len(schemas) : schemas[k].name = schemaName THEN schemas
                 ELSE Append(schemas, Item("schema", schemaName))
             sc == CHOOSE k \in 1..Len(withSchema) : withSchema[k].name = schemaName
         IN  IF catalogName \notin EnabledConnectionNames THEN tree
             ELSE [withCatalog EXCEPT ![c].children =
                      [withSchema EXCEPT ![sc].children =
                          Append(@, Item("table", tableName))]]

RECURSIVE ItemAt(_, _, _)
\* The item the Data Explorer renders for a path, its ancestors expanded;
\* an Item of type "none" where it renders none.
ItemAt(items, path, pathIndex) ==
    IF \A k \in 1..Len(items) : items[k].name # path[pathIndex]
    THEN Item("none", "")
    ELSE LET i == items[CHOOSE k \in 1..Len(items) : items[k].name = path[pathIndex]]
         IN  IF pathIndex = Len(path) THEN i
             ELSE IF ~i.isExpanded THEN Item("none", "")
             ELSE ItemAt(i.children, path, pathIndex + 1)

\* The paths of the items a click may land on.
ItemPaths ==
    { <<"SF">>, <<"SF", "Salesforce">>, <<"SF", "Internal">>,
      <<"SF", "Salesforce", "Account">>, <<"SF", "Salesforce", "Lead">> }

Remove(seq, i) == SubSeq(seq, 1, i - 1) \o SubSeq(seq, i + 1, Len(seq))

\* isAdmin of the render a callback was created in.
IsAdmin == user.role = "admin"

\* The provider of credentials holds a token: its mount effect has acquired
\* one and listed the tools.
CredReady ==
    /\ isConfigured = TRUE
    /\ tokenRef = 1
    /\ tokenExpiryRef = TickMs + ValidityMs
    /\ isRefreshingRef = FALSE
    /\ token = 1
    /\ tools = <<"queryData", "getTables">>
    /\ error = NoError
    /\ isLoading = FALSE
    /\ now = TickMs
    /\ issued = 1
    /\ caller = [p \in Procs |-> IdleCall]

InitSchema == SchemaIdle

\* The Refresh Schema button: loadSchemaTree().
RefreshSchema ==
    /\ Rendered.page = "DataExplorer"
    /\ ~isLoadingSchema /\ token # NoToken
    /\ isConfigured
    /\ Len(loads) < MaxLoads
    /\ isLoadingSchema' = TRUE
    /\ loads' = Append(loads, CatalogsLoad)
    /\ UNCHANGED <<outsideSchema, schemaTree, hasFetchedSchema>>

\* The query on sys_catalogs resolves: the enabled catalogs become the
\* tree; the finally block.
CatalogsResolve ==
    \E i \in 1..Len(loads) :
        /\ loads[i].kind = "catalogs"
        /\ schemaTree' = SelectSeq(Items("connection", Column(SysCatalogs, 1)),
                                   LAMBDA catalog : catalog.name \in EnabledConnectionNames)
        /\ isLoadingSchema' = FALSE
        /\ loads' = Remove(loads, i)
        /\ UNCHANGED <<outsideSchema, hasFetchedSchema>>

\* The query on sys_catalogs rejects: the catch block sends the query on
\* sys_tables.
CatalogsReject ==
    \E i \in 1..Len(loads) :
        /\ loads[i].kind = "catalogs"
        /\ loads' = [loads EXCEPT ![i].kind = "tables"]
        /\ UNCHANGED <<outsideSchema, schemaTree, isLoadingSchema, hasFetchedSchema>>

\* The query on sys_tables resolves: the tree of catalogMap; the finally
\* block.
TablesResolve ==
    \E i \in 1..Len(loads) :
        /\ loads[i].kind = "tables"
        /\ schemaTree' = TreeOfTables(SysTables)
        /\ isLoadingSchema' = FALSE
        /\ loads' = Remove(loads, i)
        /\ UNCHANGED <<outsideSchema, hasFetchedSchema>>

\* The query on sys_tables rejects too: the inner catch, the finally block.
TablesReject ==
    \E i \in 1..Len(loads) :
        /\ loads[i].kind = "tables"
        /\ isLoadingSchema' = FALSE
        /\ loads' = Remove(loads, i)
        /\ UNCHANGED <<outsideSchema, schemaTree, hasFetchedSchema>>

\* A click on a rendered item that is not a column: toggleItem(item, path),
\* and loadChildren(item, path) up to its await when the item has no
\* children.
ToggleItem ==
    /\ Rendered.page = "DataExplorer"
    /\ ~isLoadingSchema
    /\ \E path \in ItemPaths :
        LET item == ItemAt(schemaTree, path, 1)
        IN  /\ item.type \notin {"none", "column"}
            /\ IF item.isExpanded
               THEN /\ schemaTree' = UpdateTree(schemaTree, path, 1, [kind |-> "collapse"])
                    /\ UNCHANGED loads
               ELSE IF item.children = <<>>
               THEN IF token = NoToken THEN UNCHANGED <<schemaTree, loads>>
                    ELSE /\ Len(loads) < MaxLoads
                         /\ schemaTree' = UpdateTree(schemaTree, path, 1, [kind |-> "loading"])
                         /\ loads' = Append(loads, [kind |-> item.type, path |-> path,
                                                    isAdmin |-> IsAdmin])
               ELSE /\ schemaTree' = UpdateTree(schemaTree, path, 1, [kind |-> "expand"])
                    /\ UNCHANGED loads
    /\ UNCHANGED <<outsideSchema, isLoadingSchema, hasFetchedSchema>>

\* The children loadChildren sets for the item of a call, filtered with the
\* role of the render the call was made in.
ChildrenOf(load) ==
    LET path == load.path
    IN  CASE load.kind = "connection" ->
                 SelectSeq(Items("schema", SchemaRows(path[1])),
                           LAMBDA schema : IsSchemaAllowed(load.isAdmin, schema.name))
          [] load.kind = "schema" ->
                 SelectSeq(Items("table", TableRows(path[1], path[2])),
                           LAMBDA table : IsTableAllowed(load.isAdmin, path[2], table.name))
          [] load.kind = "table" ->
                 SelectSeq(Items("column", ColumnRows(path[1], path[2], path[3])),
                           LAMBDA col : IsColumnAllowed(load.isAdmin, path[2], path[3], col.name))

\* The query of loadChildren resolves: the filtered children are set on the
\* item the path leads to in the tree of that moment.
ChildrenResolve ==
    \E i \in 1..Len(loads) :
        /\ loads[i].kind \in {"connection", "schema", "table"}
        /\ schemaTree' = UpdateTree(schemaTree, loads[i].path, 1,
                                    [kind |-> "loaded", children |-> ChildrenOf(loads[i])])
        /\ loads' = Remove(loads, i)
        /\ UNCHANGED <<outsideSchema, isLoadingSchema, hasFetchedSchema>>

\* The query of loadChildren rejects: the catch block.
ChildrenReject ==
    \E i \in 1..Len(loads) :
        /\ loads[i].kind \in {"connection", "schema", "table"}
        /\ schemaTree' = UpdateTree(schemaTree, loads[i].path, 1, [kind |-> "failed"])
        /\ loads' = Remove(loads, i)
        /\ UNCHANGED <<outsideSchema, isLoadingSchema, hasFetchedSchema>>

\* The two demo users log in.
LoginDemoUser == Login /\ lastLogin'.email \in {AdminEmail, UserEmail}

\* The browser is sent to the Data Explorer or to the Login page.
OpenExplorer == OpenPath /\ location' \in {"/explorer", "/"}

NextSchema ==
    \/ LoginDemoUser
    \/ HandleLogout
    \/ OpenExplorer
    \/ RefreshSchema
    \/ CatalogsResolve
    \/ CatalogsReject
    \/ TablesResolve
    \/ TablesReject
    \/ ToggleItem
    \/ ChildrenResolve
    \/ ChildrenReject

InitSchemaSpec ==
    /\ ChatIdle /\ CredReady /\ PageIdle /\ McpIdle /\ AuthIdle
    /\ DashIdle /\ PromptsIdle
    /\ InitSchema

\* Logging in and out with a token held, and browsing the schema tree.
SpecSchema == InitSchemaSpec /\ [][NextSchema]_vars

\* ----------------------------- DashboardDataProvider of DashboardDataContext
PAGE_SIZE == 15

ConnNames == [zendeskConnName : {NoConn, "Zendesk1"},
              snowflakeConnName : {NoConn, "Snowflake1"},
              salesforceConnName : {NoConn, "Salesforce1"}]

\* What a render of the provider closes over: the token and the flags of
\* useCData(), the connection names and the state.
Render(tok, configured, loading, ds, st) ==
    [token |-> tok, isConfigured |-> configured, isAuthLoading |-> loading,
     dataSources |-> ds, state |-> st]

ThisRender == Render(token, isConfigured, isLoading, dataSources, state)

\* What the code of one event changes, threaded through the calls it makes.
World == [state |-> state, fetches |-> fetches, queried |-> queried,
          hasFetchedRef |-> hasFetchedRef,
          prevDataSourcesRef |-> prevDataSourcesRef]

\* The guard the four fetch functions start with.
CanQuery(r, catalog) ==
    r.isConfigured /\ r.token # NoToken /\ catalog # NoConn

\* A fetch function up to its first await: queryDataAsObjects is called.
Await(w, st, name, fetch) ==
    [w EXCEPT !.state = st,
              !.fetches = @ (+) SetToBag({fetch}),
              !.queried = [@ EXCEPT ![name] = @ + 1]]

\* Rows LIMIT PAGE_SIZE OFFSET offset returns of a table of total rows.
PageLen(total, offset) ==
    IF offset >= total THEN 0
    ELSE IF total - offset > PAGE_SIZE THEN PAGE_SIZE ELSE total - offset

\* fetchCustomerHealth, to the await of the Customer Accounts query.
FetchCustomerHealth(w, r, loadMore, zendeskCatalog, salesforceCatalog) ==
    IF ~CanQuery(r, salesforceCatalog) THEN w
    ELSE Await(w,
               [w.state EXCEPT !.customerHealthLoading = ~loadMore,
                               !.customerHealthLoadingMore = loadMore,
                               !.customerHealthError = "null"],
               "Customer Accounts",
               [kind |-> "customerHealth", loadMore |-> loadMore,
                offset |-> IF loadMore THEN r.state.customerHealthOffset ELSE 0,
                zendeskCatalog |-> zendeskCatalog, await |-> "accounts"])

\* fetchContracts(false, salesforceCatalog), to its await; of the contracts
\* the state of the model keeps contractsOffset only.
FetchContracts(w, r, salesforceCatalog) ==
    IF ~CanQuery(r, salesforceCatalog) THEN w
    ELSE Await(w,
               w.state,
               "Open Opportunities",
               [kind |-> "contracts", loadMore |-> FALSE, offset |-> 0,
                zendeskCatalog |-> NoConn, await |-> "contracts"])

\* fetchTicketsByPriority, to its await.
FetchTicketsByPriority(w, r, zendeskCatalog) ==
    IF ~CanQuery(r, zendeskCatalog) THEN w
    ELSE Await(w,
               [w.state EXCEPT !.ticketsByPriorityLoading = TRUE,
                               !.ticketsByPriorityError = "null"],
               "Tickets by Priority",
               [kind |-> "ticketsByPriority", loadMore |-> FALSE, offset |-> 0,
                zendeskCatalog |-> zendeskCatalog, await |-> "tickets"])

\* fetchJobsByHealth, to its await.
FetchJobsByHealth(w, r, snowflakeCatalog) ==
    IF ~CanQuery(r, snowflakeCatalog) THEN w
    ELSE Await(w,
               [w.state EXCEPT !.jobsByHealthLoading = TRUE,
                               !.jobsByHealthError = "null"],
               "Jobs by Health",
               [kind |-> "jobsByHealth", loadMore |-> FALSE, offset |-> 0,
                zendeskCatalog |-> NoConn, await |-> "jobs"])

\* fetchAllData: the four fetches started in the order of the array.
FetchAllData(w, r, zendeskCatalog, snowflakeCatalog, salesforceCatalog) ==
    IF salesforceCatalog = NoConn THEN w
    ELSE LET w1 == FetchCustomerHealth(w, r, FALSE, zendeskCatalog, salesforceCatalog)
             w2 == FetchContracts(w1, r, salesforceCatalog)
             w3 == IF zendeskCatalog # NoConn
                   THEN FetchTicketsByPriority(w2, r, zendeskCatalog) ELSE w2
         IN  IF snowflakeCatalog # NoConn
             THEN FetchJobsByHealth(w3, r, snowflakeCatalog) ELSE w3

\* The effect "Initial fetch when token becomes available".
InitialFetchEffect(w, r) ==
    IF /\ r.token # NoToken /\ r.isConfigured /\ ~r.isAuthLoading
       /\ ~w.hasFetchedRef
       /\ r.dataSources.salesforceConnName # NoConn
    THEN FetchAllData([w EXCEPT !.hasFetchedRef = TRUE], r,
                      r.dataSources.zendeskConnName,
                      r.dataSources.snowflakeConnName,
                      r.dataSources.salesforceConnName)
    ELSE w

\* The effect "Selectively refetch when data sources change".
DataSourceEffect(w, r) ==
    LET prev == w.prevDataSourcesRef
        ds   == r.dataSources
        salesforceChanged == prev.salesforceConnName # ds.salesforceConnName
        zendeskChanged    == prev.zendeskConnName # ds.zendeskConnName
        snowflakeChanged  == prev.snowflakeConnName # ds.snowflakeConnName
        w0 == [w EXCEPT !.prevDataSourcesRef = ds]
        w1 == IF salesforceChanged
              THEN FetchContracts(
                       FetchCustomerHealth(
                           [w0 EXCEPT !.state.customerHealthOffset = 0,
                                      !.state.contractsOffset = 0],
                           r, FALSE, ds.zendeskConnName, ds.salesforceConnName),
                       r, ds.salesforceConnName)
              ELSE IF zendeskChanged
              THEN FetchCustomerHealth(
                       [w0 EXCEPT !.state.customerHealthOffset = 0],
                       r, FALSE, ds.zendeskConnName, ds.salesforceConnName)
              ELSE w0
        w2 == IF ~zendeskChanged THEN w1
              ELSE IF ds.zendeskConnName # NoConn
              THEN FetchTicketsByPriority(w1, r, ds.zendeskConnName)
              ELSE [w1 EXCEPT !.state.ticketsByPriority = <<>>,
                              !.state.ticketsByPriorityLoading = FALSE,
                              !.state.ticketsByPriorityError = "null"]
    IN  IF ~w.hasFetchedRef THEN w
        ELSE IF ~salesforceChanged /\ ~zendeskChanged /\ ~snowflakeChanged THEN w
        ELSE IF ~snowflakeChanged THEN w2
        ELSE IF ds.snowflakeConnName # NoConn
        THEN FetchJobsByHealth(w2, r, ds.snowflakeConnName)
        ELSE [w2 EXCEPT !.state.jobsByHealth = <<>>,
                        !.state.jobsByHealthLoading = FALSE,
                        !.state.jobsByHealthError = "null"]

\* The fetch functions are new functions in a render whose token, isConfigured
\* or offsets differ from those of the render before (their useCallback
\* dependencies), and fetchAllData with them.
FetchersChanged(r0, r1) ==
    \/ r0.token # r1.token
    \/ r0.isConfigured # r1.isConfigured
    \/ r0.state.customerHealthOffset # r1.state.customerHealthOffset
    \/ r0.state.contractsOffset # r1.state.contractsOffset

\* The effects of the commit of render r1 after render r0, in the order the
\* component declares them; each runs if one of its dependencies changed.
\* The state the effects set asks for one more render, whose effects find
\* hasFetchedRef set and prevDataSourcesRef equal to the names, and do nothing.
Effects(w, r0, r1) ==
    LET namesChanged == r0.dataSources # r1.dataSources
        w1 == IF \/ FetchersChanged(r0, r1) \/ namesChanged
                 \/ r0.isAuthLoading # r1.isAuthLoading
              THEN InitialFetchEffect(w, r1) ELSE w
    IN  IF FetchersChanged(r0, r1) \/ namesChanged
        THEN DataSourceEffect(w1, r1) ELSE w1

\* The event ends in world w: nothing more happens before the next event.
EventEnds(w) ==
    /\ state' = w.state
    /\ fetches' = w.fetches
    /\ queried' = w.queried
    /\ hasFetchedRef' = w.hasFetchedRef
    /\ prevDataSourcesRef' = w.prevDataSourcesRef

\* The event left the provider in world w with token tok, isLoading loading
\* and connection names ds: the provider renders and its effects run.
Commit(w, tok, loading, ds) ==
    EventEnds(Effects(w, ThisRender, Render(tok, isConfigured, loading, ds, w.state)))

InitDash ==
    /\ dataSources \in ConnNames
    /\ DashFresh

\* refreshToken() of CDataProvider at mount got its token: setToken and,
\* in the finally of refreshToken, setIsLoading(false), rendered together.
TokenAvailable ==
    /\ token = NoToken /\ isLoading
    /\ token' = 1 /\ tokenRef' = 1 /\ tokenExpiryRef' = now + ValidityMs
    /\ issued' = 1 /\ isLoading' = FALSE
    /\ Commit(World, 1, FALSE, dataSources)
    /\ UNCHANGED <<outsideDash, dataSources, events, isConfigured, isRefreshingRef,
                   tools, error, now, caller>>

\* The same, setToken rendered before setIsLoading(false) is called.
TokenSet ==
    /\ token = NoToken /\ isLoading
    /\ token' = 1 /\ tokenRef' = 1 /\ tokenExpiryRef' = now + ValidityMs
    /\ issued' = 1
    /\ Commit(World, 1, isLoading, dataSources)
    /\ UNCHANGED <<outsideDash, dataSources, events, isConfigured, isRefreshingRef,
                   tools, error, isLoading, now, caller>>

\* setIsLoading(false) in the finally of refreshToken, rendered on its own.
LoadingCleared ==
    /\ token # NoToken /\ isLoading
    /\ isLoading' = FALSE
    /\ Commit(World, token, FALSE, dataSources)
    /\ UNCHANGED <<outsideDash, dataSources, events, isConfigured, tokenRef,
                   tokenExpiryRef, isRefreshingRef, token, tools, error, now,
                   issued, caller>>

\* The user enables, disables or replaces a connection (DataSourcesContext).
SetConnection(ds) ==
    /\ events < MaxEvents /\ events' = events + 1
    /\ ds # dataSources
    /\ \E c \in DOMAIN ds : \A d \in DOMAIN ds \ {c} : ds[d] = dataSources[d]
    /\ dataSources' = ds
    /\ Commit(World, token, isLoading, ds)
    /\ UNCHANGED <<outsideDash, credVars>>

\* refreshAll: the offsets reset, then fetchAllData.
RefreshAll ==
    /\ events < MaxEvents /\ events' = events + 1
    /\ LET r == ThisRender
           w == FetchAllData([World EXCEPT !.state.customerHealthOffset = 0,
                                           !.state.contractsOffset = 0],
                             r, dataSources.zendeskConnName,
                             dataSources.snowflakeConnName,
                             dataSources.salesforceConnName)
       IN  /\ w # World
           /\ Commit(w, token, isLoading, dataSources)
    /\ UNCHANGED <<outsideDash, credVars, dataSources>>

\* loadMoreCustomerHealth, called by the scroll handler of the table.
LoadMoreCustomerHealth ==
    /\ events < MaxEvents /\ events' = events + 1
    /\ ~state.customerHealthLoadingMore /\ state.customerHealthHasMore
    /\ LET w == FetchCustomerHealth(World, ThisRender, TRUE,
                                    dataSources.zendeskConnName,
                                    dataSources.salesforceConnName)
       IN  /\ w # World
           /\ Commit(w, token, isLoading, dataSources)
    /\ UNCHANGED <<outsideDash, credVars, dataSources>>

\* The fetches of kind k waiting at await a.
Waiting(k, a) == {f \in BagToSet(fetches) : f.kind = k /\ f.await = a}

\* World with fetch f gone from the fetches in flight.
Without(f) == [World EXCEPT !.fetches = @ (-) SetToBag({f})]

\* The success setState of fetchCustomerHealth for a page of rows rows.
CustomerHealthLoaded(w, f, rows) ==
    [w EXCEPT !.state.customerHealth =
                  IF f.loadMore
                  THEN Append(@, [offset |-> f.offset, rows |-> rows])
                  ELSE << [offset |-> f.offset, rows |-> rows] >>,
              !.state.customerHealthLoading = FALSE,
              !.state.customerHealthLoadingMore = FALSE,
              !.state.customerHealthHasMore = (rows = PAGE_SIZE),
              !.state.customerHealthOffset = f.offset + rows]

\* The Customer Accounts query of a fetchCustomerHealth call resolves; with a
\* Zendesk catalog and rows the call goes on to the Tickets by Account query.
CustomerAccountsResolve ==
    /\ \E f \in Waiting("customerHealth", "accounts") :
          LET rows == PageLen(TotalRows, f.offset)
          IN  IF f.zendeskCatalog # NoConn /\ rows > 0
              THEN Commit([World EXCEPT !.fetches =
                               (@ (-) SetToBag({f}))
                                 (+) SetToBag({[f EXCEPT !.await = "ticketsByAccount"]})],
                          token, isLoading, dataSources)
              ELSE Commit(CustomerHealthLoaded(Without(f), f, rows),
                          token, isLoading, dataSources)
    /\ UNCHANGED <<outsideDash, credVars, dataSources, events>>

\* The Tickets by Account query resolves or rejects (the inner catch only
\* warns): the page is stored with or without ticket counts.
TicketsByAccountSettle ==
    /\ \E f \in Waiting("customerHealth", "ticketsByAccount") :
          Commit(CustomerHealthLoaded(Without(f), f, PageLen(TotalRows, f.offset)),
                 token, isLoading, dataSources)
    /\ UNCHANGED <<outsideDash, credVars, dataSources, events>>

\* The Customer Accounts query rejects: the catch of fetchCustomerHealth.
CustomerAccountsReject ==
    /\ \E f \in Waiting("customerHealth", "accounts") :
          Commit([Without(f) EXCEPT !.state.customerHealthLoading = FALSE,
                                    !.state.customerHealthLoadingMore = FALSE,
                                    !.state.customerHealthError = "error"],
                 token, isLoading, dataSources)
    /\ UNCHANGED <<outsideDash, credVars, dataSources, events>>

\* The Open Opportunities query of fetchContracts resolves, or rejects.
ContractsResolve ==
    /\ \E f \in Waiting("contracts", "contracts") :
          Commit([Without(f) EXCEPT !.state.contractsOffset =
                                        f.offset + PageLen(TotalContracts, f.offset)],
                 token, isLoading, dataSources)
    /\ UNCHANGED <<outsideDash, credVars, dataSources, events>>

ContractsReject ==
    /\ \E f \in Waiting("contracts", "contracts") :
          Commit(Without(f), token, isLoading, dataSources)
    /\ UNCHANGED <<outsideDash, credVars, dataSources, events>>

\* The rows a chart query returns.
ChartRows == { << [name |-> "high", count |-> 1] >> }

\* The Tickets by Priority query resolves.
TicketsByPriorityResolve ==
    /\ \E f \in Waiting("ticketsByPriority", "tickets") : \E rows \in ChartRows :
          Commit([Without(f) EXCEPT !.state.ticketsByPriority = rows,
                                    !.state.ticketsByPriorityLoading = FALSE],
                 token, isLoading, dataSources)
    /\ UNCHANGED <<outsideDash, credVars, dataSources, events>>

TicketsByPriorityReject ==
    /\ \E f \in Waiting("ticketsByPriority", "tickets") :
          Commit([Without(f) EXCEPT !.state.ticketsByPriorityLoading = FALSE,
                                    !.state.ticketsByPriorityError = "error"],
                 token, isLoading, dataSources)
    /\ UNCHANGED <<outsideDash, credVars, dataSources, events>>

\* The Jobs by Health query resolves.
JobsByHealthResolve ==
    /\ \E f \in Waiting("jobsByHealth", "jobs") : \E rows \in ChartRows :
          Commit([Without(f) EXCEPT !.state.jobsByHealth = rows,
                                    !.state.jobsByHealthLoading = FALSE],
                 token, isLoading, dataSources)
    /\ UNCHANGED <<outsideDash, credVars, dataSources, events>>

JobsByHealthReject ==
    /\ \E f \in Waiting("jobsByHealth", "jobs") :
          Commit([Without(f) EXCEPT !.state.jobsByHealthLoading = FALSE,
                                    !.state.jobsByHealthError = "error"],
                 token, isLoading, dataSources)
    /\ UNCHANGED <<outsideDash, credVars, dataSources, events>>

InitDashSpec ==
    /\ ChatIdle /\ CredIdle /\ PageIdle /\ McpIdle /\ AuthIdle /\ SchemaIdle
    /\ PromptsIdle
    /\ InitDash

NextDash ==
    \/ TokenAvailable
    \/ TokenSet
    \/ LoadingCleared
    \/ \E ds \in ConnNames : SetConnection(ds)
    \/ RefreshAll
    \/ LoadMoreCustomerHealth
    \/ CustomerAccountsResolve
    \/ TicketsByAccountSettle
    \/ CustomerAccountsReject
    \/ ContractsResolve
    \/ ContractsReject
    \/ TicketsByPriorityResolve
    \/ TicketsByPriorityReject
    \/ JobsByHealthResolve
    \/ JobsByHealthReject

SpecDash == InitDashSpec /\ [][NextDash]_vars

\* ======================================================================
\* Properties of chat()
\* ======================================================================
ToolUseIds(content) ==
    LET us == Filter(content, "tool_use") IN [i \in 1..Len(us) |-> us[i].id]

ResultIds(content) == [i \in 1..Len(content) |-> content[i].tool_use_id]

\* A user message the loop appended: its content is the round's toolResults.
IsToolResultMessage(m) == m.role = "user" /\ ~m.plain

\* Tool-use rounds whose two messages have been pushed.
RoundsDone == IF pc \in {"tools", "call"} THEN rounds - 1 ELSE rounds

\* Index in messages of the assistant message of finished round r.
AssistantAt(r) == Len(messages) - 2 * RoundsDone + 2 * r - 1

\* The tool results of round r: in messages once the round is finished, in
\* toolResults while it runs.
ResultsOfRound(r) ==
    IF r <= RoundsDone THEN messages[AssistantAt(r) + 1].content ELSE toolResults

\* The tool_use blocks of round r.
UsesOfRound(r) ==
    IF r <= RoundsDone THEN Filter(messages[AssistantAt(r)].content, "tool_use")
    ELSE toolUseBlocks

InvokedInRound(r) == SelectSeq(invoked, LAMBDA x : x.round = r)

EngineErrors == {ConfigError, FetchError} \cup {ApiError(st) : st \in ErrorStatuses}

\* C1: every tool-result message follows the assistant message holding the
\* engine's response content, consists of tool_result blocks only, one per
\* tool_use block of that response, with the same ids in the same order; and
\* a request sent after a round has that pair as its last two messages.
ToolResultOrder ==
    /\ \A i \in 1..Len(messages) :
        IsToolResultMessage(messages[i]) =>
            /\ i > 1
            /\ messages[i - 1].role = "assistant" /\ ~messages[i - 1].plain
            /\ \A j \in 1..Len(messages[i].content) :
                   messages[i].content[j].type = "tool_result"
            /\ ResultIds(messages[i].content) = ToolUseIds(messages[i - 1].content)
    /\ Cardinality({i \in 1..Len(messages) : IsToolResultMessage(messages[i])}) = RoundsDone
    /\ (pc = "fetch" /\ rounds > 0) =>
            /\ IsToolResultMessage(messages[Len(messages)])
            /\ messages[Len(messages) - 1].content = response.content

\* C1 witness: a request is in flight whose last message answers two tool_use
\* blocks, one with an error and one with a result.
ToolResultOrderWitness ==
    /\ pc = "fetch" /\ rounds > 0
    /\ Len(messages[Len(messages)].content) = 2
    /\ StartsWith(messages[Len(messages)].content[1].content, ErrorPrefix)
    /\ ~StartsWith(messages[Len(messages)].content[2].content, ErrorPrefix)

\* C2: a rejected callTool never rejects chat(); its block's tool_result
\* starts with "Error: "; every block of a finished round was invoked and has
\* its result, whatever failed; and the request that follows the round
\* carries the whole message list.
ToolErrorContained ==
    /\ thrown # NoValue => thrown \in EngineErrors
    /\ \A r \in 1..rounds :
        LET inv == InvokedInRound(r)
            res == ResultsOfRound(r)
        IN  /\ \A k \in 1..Len(inv) :
                   inv[k].outcome = "err" =>
                       /\ k <= Len(res)
                       /\ res[k].tool_use_id = inv[k].id
                       /\ StartsWith(res[k].content, ErrorPrefix)
            /\ r <= RoundsDone =>
                   /\ Len(inv) = Len(UsesOfRound(r))
                   /\ Len(res) = Len(inv)
    /\ (pc = "fetch" /\ rounds > 0) =>
           logEntries[Len(logEntries)].wire = Len(messages)

\* C2 witness: the first of two tools failed, the second was still invoked,
\* and the next engine request is in flight.
ToolErrorContainedWitness ==
    /\ pc = "fetch" /\ rounds = 1
    /\ Len(invoked) = 2
    /\ invoked[1].outcome = "err" /\ invoked[2].outcome = "ok"

\* C3: the log alternates request, response; a request entry is there while
\* its call is in flight and the response entry only once the reply arrived;
\* a run that returns after k rounds returns k+1 pairs.
DebugLogPairs ==
    /\ \A i \in 1..Len(logEntries) :
           logEntries[i].type = IF i % 2 = 1 THEN "request" ELSE "response"
    /\ Len(logEntries) = sent + Len(received)
    /\ sent - Len(received) \in {0, 1}
    /\ sent = Len(received) + 1 => pc \in {"fetch", "rejected"}
    /\ pc = "fetch" => logEntries[Len(logEntries)].type = "request"
    /\ pc = "returned" =>
           /\ returned.debugLogs.entries = logEntries
           /\ Len(returned.debugLogs.entries) = 2 * (rounds + 1)
           /\ sent = rounds + 1

\* C3 witness: a run with one tool round has returned, with 4 entries.
DebugLogPairsWitness ==
    /\ pc = "returned" /\ rounds = 1
    /\ Len(returned.debugLogs.entries) = 4

RECURSIVE SumUsage(_, _)
SumUsage(us, field) ==
    IF us = <<>> THEN 0 ELSE us[1][field] + SumUsage(Tail(us), field)

\* C4: the totals returned are the sums of the usage of every response the
\* run received.
TokenTotals ==
    pc = "returned" =>
        /\ returned.debugLogs.totalInputTokens = SumUsage(received, "input_tokens")
        /\ returned.debugLogs.totalOutputTokens = SumUsage(received, "output_tokens")

\* C4 witness: a run of three engine responses with different usages returned.
TokenTotalsWitness ==
    /\ pc = "returned" /\ Len(received) = 3
    /\ received[1] # received[2]
    /\ returned.debugLogs.totalInputTokens = 5

\* C5: at most one call is in flight; an engine call is in flight only while
\* the run awaits fetch and a tool call only while it awaits callTool; the
\* invocations of a round are the round's tool_use blocks in order, each
\* started after the one before settled; an engine request goes out only
\* when every response before it has arrived and every tool of the round
\* has settled.
Sequential ==
    /\ inFlight.engine + inFlight.tool <= 1
    /\ inFlight.engine = 1 <=> pc = "fetch"
    /\ inFlight.tool = 1 <=> pc = "call"
    /\ \A k \in 1..Len(invoked) :
           invoked[k].outcome = "pending" => k = Len(invoked) /\ pc = "call"
    /\ \A r \in 1..rounds :
        LET inv == InvokedInRound(r)
            ids == ToolUseIds(UsesOfRound(r))
        IN  /\ Len(inv) <= Len(ids)
            /\ \A k \in 1..Len(inv) : inv[k].id = ids[k]
    /\ pc = "fetch" =>
           /\ sent = Len(received) + 1
           /\ rounds > 0 => Len(InvokedInRound(rounds)) = Len(UsesOfRound(rounds))

\* C5 witness: the second tool of a round is in flight, the first has settled.
SequentialWitness ==
    /\ pc = "call" /\ toolIdx = 2
    /\ Len(InvokedInRound(rounds)) = 2
    /\ invoked[Len(invoked) - 1].outcome # "pending"

\* C6: without an API key the run does nothing but reject with the
\* configuration error, and then takes no further step.
NoKeyNoEffects ==
    ~apiKey =>
        /\ pc \in {"send", "rejected"}
        /\ logEntries = <<>> /\ sent = 0 /\ invoked = <<>> /\ updates = <<>>
        /\ inFlight = [engine |-> 0, tool |-> 0]
        /\ returned = NoValue
        /\ pc = "rejected" => thrown = ConfigError /\ ~ENABLED Next

\* C6 witness: the run without a key has rejected.
NoKeyNoEffectsWitness == ~apiKey /\ pc = "rejected" /\ thrown = ConfigError

\* C7: once the engine has answered with a non-success status the run is
\* rejected with that API error, nothing is in flight and no step follows;
\* the step that receives the status changes neither the messages nor the
\* tool results nor the tool calls.
EngineErrorPropagates ==
    /\ [](lastStatus \in ErrorStatuses =>
            /\ pc = "rejected"
            /\ thrown = ApiError(lastStatus)
            /\ inFlight = [engine |-> 0, tool |-> 0]
            /\ ~ENABLED Next)
    /\ [][lastStatus' \in ErrorStatuses /\ lastStatus \notin ErrorStatuses =>
            UNCHANGED <<messages, toolResults, toolCalls, invoked, sent, logEntries>>]_vars

\* C7 witness: the engine failed on the request after a tool round.
EngineErrorPropagatesWitness ==
    /\ lastStatus = 500 /\ rounds = 1 /\ pc = "rejected" /\ Len(invoked) > 0

RECURSIVE TextLines(_)
\* The text blocks of a content, in order, each after the first preceded by
\* a newline.
TextLines(content) ==
    IF content = <<>> THEN <<>>
    ELSE LET front == SubSeq(content, 1, Len(content) - 1)
             last  == content[Len(content)]
         IN  IF last.type # "text" THEN TextLines(front)
             ELSE IF \E i \in 1..Len(front) : front[i].type = "text"
                  THEN TextLines(front) \o <<"\n">> \o last.text
                  ELSE last.text

\* C16: a run that returns returns the text blocks of the last response it
\* received, in order and joined by newline, whatever text the responses of
\* earlier rounds held, and the toolCalls it accumulated: one per tool
\* call that resolved.
FinalText ==
    pc = "returned" =>
        /\ logEntries[Len(logEntries)].type = "response"
        /\ returned.response = TextLines(logEntries[Len(logEntries)].data.content)
        /\ returned.toolCalls = toolCalls
        /\ Len(returned.toolCalls) = Len(SelectSeq(invoked, LAMBDA x : x.outcome = "ok"))

\* C16 witness: one tool round whose response held text and one tool_use
\* block, then a final response of two text blocks.
FinalTextWitness ==
    /\ pc = "returned" /\ rounds = 1
    /\ Len(returned.toolCalls) = 1
    /\ TextLines(logEntries[2].data.content) # <<>>
    /\ returned.response = <<"a", "\n", "b">>

\* The message list a request entry shows when it is read: requestBody
\* holds the messages array of the run.
MessagesOf(entry) == messages

\* C17: each request entry shows the message list that was sent with it,
\* however many rounds followed.
RequestEntriesFrozen ==
    \A i \in 1..Len(logEntries) :
        logEntries[i].type = "request" =>
            Len(MessagesOf(logEntries[i])) = logEntries[i].wire

\* The content of the response that opened round r.
ContentOfRound(r) ==
    IF r <= RoundsDone THEN messages[AssistantAt(r)].content ELSE response.content

\* An update reduced to its type and the tool it names.
UpdateKey(u) == IF u.type = "thinking" THEN <<"thinking", "">> ELSE <<u.type, u.toolName>>

RECURSIVE ToolUpdateKeys(_)
\* For invocations in order: tool_start, then tool_complete or tool_error
\* once settled.
ToolUpdateKeys(inv) ==
    IF inv = <<>> THEN <<>>
    ELSE LET x == inv[Len(inv)]
         IN  ToolUpdateKeys(SubSeq(inv, 1, Len(inv) - 1))
             \o << <<"tool_start", x.name>> >>
             \o (CASE x.outcome = "ok"  -> << <<"tool_complete", x.name>> >>
                   [] x.outcome = "err" -> << <<"tool_error", x.name>> >>
                   [] OTHER -> <<>>)

RECURSIVE RoundUpdateKeys(_)
\* The updates of rounds 1..r: per round a thinking update when the
\* response's text is not blank, then the updates of its invocations.
RoundUpdateKeys(r) ==
    IF r = 0 THEN <<>>
    ELSE RoundUpdateKeys(r - 1)
         \o (IF TrimNonEmpty(TextLines(ContentOfRound(r)))
             THEN << <<"thinking", "">> >> ELSE <<>>)
         \o ToolUpdateKeys(InvokedInRound(r))

\* C21: the updates passed to onInterimUpdate are, round by round, at most
\* one thinking update (only for text that is not blank), then per tool_use
\* block in order tool_start and, once the call settled, tool_complete or
\* tool_error for the same tool; nothing is emitted for the final response,
\* and nothing at all without a callback.
UpdatePattern ==
    /\ ~callback => updates = <<>>
    /\ callback =>
          [i \in 1..Len(updates) |-> UpdateKey(updates[i])] = RoundUpdateKeys(rounds)
    /\ \A r \in 1..RoundsDone :
          Len(InvokedInRound(r)) = Len(Filter(ContentOfRound(r), "tool_use"))

\* C21 witness: a returned run with a callback whose one round had text and
\* two tools, the first failed and the second succeeded.
UpdatePatternWitness ==
    /\ pc = "returned" /\ rounds = 1 /\ callback
    /\ [i \in 1..Len(updates) |-> updates[i].type] =
           <<"thinking", "tool_start", "tool_error", "tool_start", "tool_complete">>
    /\ TextLines(response.content) # <<>>

RECURSIVE ResultsUpTo(_)
\* Every tool_result of rounds 1..r, in order.
ResultsUpTo(r) == IF r = 0 THEN <<>> ELSE ResultsUpTo(r - 1) \o ResultsOfRound(r)

\* The tool_results of the run that are no "Error: " string.
SuccessResults ==
    SelectSeq(ResultsUpTo(rounds), LAMBDA res : ~StartsWith(res.content, ErrorPrefix))

\* The invocations that resolved, in order.
Succeeded == SelectSeq(invoked, LAMBDA x : x.outcome = "ok")

\* C22: toolCalls holds one {name, result} per invocation that resolved, in
\* invocation order over all rounds, none for one that rejected; it is as
\* long as the run has tool_results that are no "Error: " string, entry k
\* being the result in the k-th of them; and it is what a run returns.
ToolCallsLog ==
    /\ Len(toolCalls) = Len(Succeeded)
    /\ Len(toolCalls) = Len(SuccessResults)
    /\ \A k \in 1..Len(toolCalls) :
           /\ toolCalls[k].name = Succeeded[k].name
           /\ SuccessResults[k].tool_use_id = Succeeded[k].id
           /\ SuccessResults[k].content = JSONStringify(toolCalls[k].result)
    /\ pc = "returned" => returned.toolCalls = toolCalls

\* C22 witness: a returned run of two rounds in which three calls resolved
\* and one rejected.
ToolCallsLogWitness ==
    /\ pc = "returned" /\ rounds = 2
    /\ Len(returned.toolCalls) = 3
    /\ Len(invoked) = 4

\* C23: the run returns only on a response whose stop_reason is not
\* "tool_use", and then it does return; a response with stop_reason
\* "tool_use", with tool_use blocks or without, is followed by the next
\* request as soon as the round's calls have settled, in every round.
LoopUntilOtherStop ==
    /\ [][pc # "returned" /\ pc' = "returned" => response.stop_reason # "tool_use"]_vars
    /\ (pc = "loop" /\ response.stop_reason # "tool_use") ~> (pc = "returned")
    /\ \A n \in 1..MaxRounds :
           (pc = "loop" /\ response.stop_reason = "tool_use" /\ sent = n)
               ~> (pc = "fetch" /\ sent = n + 1)

\* C23 witness: every response so far asked for tools and held no tool_use
\* block, and one more request is in flight.
LoopUntilOtherStopWitness ==
    /\ pc = "fetch" /\ rounds = MaxRounds
    /\ sent = MaxRounds + 1
    /\ invoked = <<>>

RECURSIVE ResultsIn(_)
\* The tool_result blocks of the tool-result messages of a message list.
ResultsIn(ms) ==
    IF ms = <<>> THEN <<>>
    ELSE ResultsIn(SubSeq(ms, 1, Len(ms) - 1))
         \o (IF IsToolResultMessage(ms[Len(ms)]) THEN ms[Len(ms)].content ELSE <<>>)

\* C24: whatever the callback does, a tool-result message holds exactly one
\* tool_result per tool_use block of the response before it, the results of
\* the round under way are one per block taken so far, and toolCalls is as
\* long as the run has tool_results with a success payload.
ResultPerBlock ==
    /\ \A i \in 2..Len(messages) :
           IsToolResultMessage(messages[i]) =>
               ResultIds(messages[i].content) = ToolUseIds(messages[i - 1].content)
    /\ pc \in {"tools", "call"} =>
           /\ ResultIds(toolResults) = SubSeq(ToolUseIds(toolUseBlocks), 1, toolIdx - 1)
           /\ Len(toolCalls) =
                  Len(SelectSeq(ResultsIn(messages) \o toolResults,
                                LAMBDA res : ~StartsWith(res.content, ErrorPrefix)))

\* ======================================================================
\* Properties of the credential provider
\* ======================================================================
\* The calls whose generateJWT request is in flight.
Acquiring == {p \in Procs : caller[p].pc = "jwt"}

\* Caller p calls withAutoRefresh in this step, and so getValidToken.
CallsGetValidToken(p) == CanCall(p) /\ caller'[p].frame = "first"

\* C8: a getValidToken call made while a token is cached and now < expiry
\* hands the cached token to apiCall in the same step, starts no generateJWT
\* and no tools/list request and leaves the cache as it is, so that a second
\* such call gets the same token; a call goes on to doRefreshToken only when
\* no token is cached or now >= expiry.
GetValidTokenCached ==
    [][\A p \in Procs :
          CallsGetValidToken(p) =>
              IF tokenRef # NoToken /\ now < tokenExpiryRef
              THEN /\ caller'[p].pc = "api1"
                   /\ caller'[p].attempts = <<tokenRef>>
                   /\ UNCHANGED <<tokenRef, tokenExpiryRef, isRefreshingRef,
                                  token, tools, error, issued>>
              ELSE caller'[p].pc \in {"wait", "jwt"}]_vars

\* C8 witness: two wrapped calls run with the one cached token inside its
\* validity window, a single token ever issued and no acquisition in flight.
GetValidTokenCachedWitness ==
    /\ tokenRef # NoToken /\ now < tokenExpiryRef
    /\ issued = 1
    /\ ~isRefreshingRef
    /\ \E p, q \in Procs :
           /\ p # q
           /\ caller[p].pc = "api1" /\ caller[p].attempts = <<tokenRef>>
           /\ caller[q].pc = "api1" /\ caller[q].attempts = <<tokenRef>>

\* C9: at most one generateJWT request is in flight at any time.
SingleAcquisition == Cardinality(Acquiring) <= 1

\* The calls with a token acquisition in flight: generateJWT, then
\* tools/list.
InAcquisition == {p \in Procs : caller[p].pc \in {"jwt", "list"}}

\* C25: isRefreshingRef is true exactly while some token acquisition is in
\* flight.
RefreshingFlagExact == isRefreshingRef <=> InAcquisition # {}

\* C10: a wrapped call is retried only after an authentication-class error
\* of its first attempt, and the retry runs with a token other than the one
\* the first attempt failed with.
RetryWithNewToken ==
    \A p \in Procs :
        /\ caller[p].frame = "retry" => IsAuthError(caller[p].firstError)
        /\ caller[p].pc = "api2" =>
               /\ Len(caller[p].attempts) = 2
               /\ caller[p].attempts[2] # caller[p].attempts[1]

\* ======================================================================
\* Properties of chat() with callTool wired in
\* ======================================================================
\* C11: when the retried callMCPTool of a callTool resolves (the first
\* attempt failed with an authentication-class error and a token was
\* acquired for the retry), the loop sees one successful invocation: no
\* error reaches chat(), the tool_result pushed is the JSON of the retry's
\* result, one entry is added to toolCalls, and the update is tool_complete.
RetryTransparent ==
    [][(caller[ToolCaller].pc = "api2" /\ caller'[ToolCaller].pc = "done") =>
          LET toolUse == toolUseBlocks[toolIdx]
              result  == caller'[ToolCaller].result
          IN  /\ IsAuthError(caller[ToolCaller].firstError)
              /\ Len(caller[ToolCaller].attempts) = 2
              /\ pc' = "tools" /\ thrown' = NoValue
              /\ toolCalls' = Append(toolCalls, [name |-> toolUse.name, result |-> result])
              /\ toolResults' = Append(toolResults,
                                       ToolResult(toolUse.id, JSONStringify(result)))
              /\ invoked' = Settle(invoked, "ok")
              /\ updates' = Append(updates, [type |-> "tool_complete",
                                             toolName |-> toolUse.name,
                                             toolResult |-> result])]_vars

\* C11 witness: the run's only invocation so far has succeeded although two
\* tokens were acquired for it within the validity of the first, that is,
\* after a failed first attempt and a retry.
RetryTransparentWitness ==
    /\ issued = 2 /\ now = TickMs
    /\ caller[ToolCaller].pc = "done"
    /\ Len(invoked) = 1 /\ invoked[1].outcome = "ok"
    /\ Len(toolCalls) = 1 /\ Len(toolResults) = 1
    /\ ~StartsWith(toolResults[1].content, ErrorPrefix)

\* ======================================================================
\* Properties of the Chat page
\* ======================================================================
\* The runs of handleSend whose chat() has not settled.
ActiveRuns == {r \in 1..Len(runs) : runs[r].pc = "chat"}

\* C12: at most one chat() run of the page is in flight at any time.
OneActiveRun == Cardinality(ActiveRuns) <= 1

\* C13: a run whose chat() rejects appends exactly one assistant message
\* whose text embeds the error's message; a run that settles, either way,
\* appends one assistant message and leaves isLoading false and
\* thinkingSteps empty; and with no run in flight the page is not loading.
RunSettles ==
    /\ [](ActiveRuns = {} => (~pageIsLoading /\ thinkingSteps = <<>>))
    /\ [][\A r \in 1..Len(runs) :
              (runs[r].pc = "chat" /\ runs'[r].pc # "chat") =>
                  LET last == pageMessages'[Len(pageMessages')] IN
                  /\ pageIsLoading' = FALSE
                  /\ thinkingSteps' = <<>>
                  /\ SubSeq(pageMessages', 1, Len(pageMessages)) = pageMessages
                  /\ Len(pageMessages') = Len(pageMessages) + 1
                  /\ last.role = "assistant"
                  /\ runs'[r].pc = "failed" =>
                         /\ StartsWith(last.content, SorryPrefix)
                         /\ Includes(last.content, runs'[r].error.message)
                         /\ runs'[r].error \in ChatErrors]_vars

\* C13 witness: the only run started has been rejected after its tool
\* round; the page shows the apology with the error's message and is not
\* loading.
RunSettlesWitness ==
    /\ Len(runs) = 1 /\ runs[1].pc = "failed" /\ runs[1].emitted = 3
    /\ thinkingStepsRef # <<>>
    /\ pageMessages[Len(pageMessages)].content = SorryPrefix \o runs[1].error.message
    /\ ~pageIsLoading /\ thinkingSteps = <<>>

\* ======================================================================
\* Properties of mcpRequest
\* ======================================================================
IsEventStream == Includes(contentType, <<"text/event-stream">>)

BodyLines == Split(httpBody, "\n", <<>>)

\* The lines of the body that start with "data: " and carry well-formed
\* JSON after it.
WellFormedDataLines ==
    {i \in 1..Len(BodyLines) :
        /\ StartsWith(BodyLines[i], DataPrefix)
        /\ JSONParse(Slice(BodyLines[i], Len(DataPrefix))).ok}

LastWellFormed == CHOOSE i \in WellFormedDataLines : \A j \in WellFormedDataLines : j <= i

\* Its JSON text.
LastPayloadText == Slice(BodyLines[LastWellFormed], Len(DataPrefix))

Payload ==
    IF IsEventStream
    THEN IF WellFormedDataLines = {} THEN ParseFail ELSE JSONParse(LastPayloadText)
    ELSE JSONParse(httpBody)

\* C15: listMCPTools and callMCPTool fail with "MCP request failed: <status>"
\* when the status is not a success; with success they fail with the
\* server's message when the payload, in either form, holds an error
\* object; and they return only with success and a payload without error
\* object, and then the payload's result (its tools for listMCPTools).
TransportAndProtocolErrors ==
    mcpOutcome # NoValue =>
        /\ httpStatus \notin OkStatuses =>
               mcpOutcome = Throws("Error", <<"MCP request failed: ", httpStatus>>)
        /\ (/\ httpStatus \in OkStatuses
            /\ Payload.ok
            /\ Get(Payload.value, "\"error\"").type = "object") =>
               mcpOutcome = Throws("Error",
                   MessageOf(Get(Get(Payload.value, "\"error\""), "\"message\"")))
        /\ mcpOutcome.kind = "return" =>
               /\ httpStatus \in OkStatuses
               /\ Payload.ok
               /\ Get(Payload.value, "\"error\"").type # "object"
               /\ mcpOutcome.value =
                      IF mcpMethod = "tools/list"
                      THEN Get(Get(Payload.value, "\"result\""), "\"tools\"")
                      ELSE Get(Payload.value, "\"result\"")

\* C15 witness: callMCPTool has failed with the server's message on a plain
\* JSON body that holds an error object.
TransportAndProtocolErrorsWitness ==
    /\ mcpMethod = "tools/call" /\ httpStatus = "200" /\ ~IsEventStream
    /\ httpBody = ErrorJson
    /\ mcpOutcome = Throws("Error", <<"\"boom\"">>)

\* ======================================================================
\* Properties of AuthProvider and the routes

AllowedEmails == {AdminEmail, UserEmail}

\* C18: login succeeds if and only if the email, trimmed and lowercased, is
\* admin@mycompany.com or user@mycompany.com, and whoever is logged in is
\* one of these two with the role of that name: admin for the first, user
\* for the second.
LoginIffAllowed ==
    /\ lastLogin.made =>
          (lastLogin.success <=> Trim(ToLowerCase(lastLogin.email)) \in AllowedEmails)
    /\ IsAuthenticated =>
          /\ user.email \in AllowedEmails
          /\ user.role = (IF user.email = AdminEmail THEN "admin" ELSE "user")

\* C19: the Chat page is rendered only for a user of role admin; away from
\* the Login page a visitor who is not logged in gets the redirect to "/";
\* a logged-in user who is not an admin gets, at /chat, the redirect to
\* /dashboard, and no navigation item leads to /chat.
ChatOnlyForAdmin ==
    /\ Rendered.page = "Chat" => IsAuthenticated /\ user.role = "admin"
    /\ ~IsAuthenticated /\ location # "/" =>
          Rendered = [page |-> "Navigate", to |-> "/"]
    /\ IsAuthenticated /\ user.role # "admin" =>
          /\ location = "/chat" => Rendered = [page |-> "Navigate", to |-> "/dashboard"]
          /\ \A i \in 1..Len(NavItems) : NavItems[i].path # "/chat"

\* A logged-in user without the admin role has opened /chat.
ChatOnlyForAdminWitness ==
    /\ IsAuthenticated /\ user.role # "admin"
    /\ lastLogin.success
    /\ location = "/chat"

\* ======================================================================
\* Properties of SchemaProvider

RECURSIVE ShownAllowed(_, _)
\* Every schema, table and column the Data Explorer renders from items,
\* found under the names of path, is listed in USER_ALLOWED_SCHEMA.
ShownAllowed(items, path) ==
    \A k \in 1..Len(items) :
        LET i == items[k]
        IN  /\ CASE i.type = "schema" -> IsSchemaAllowed(FALSE, i.name)
                  [] i.type = "table"  -> IsTableAllowed(FALSE, path[2], i.name)
                  [] i.type = "column" -> IsColumnAllowed(FALSE, path[2], path[3], i.name)
                  [] OTHER -> TRUE
            /\ i.isExpanded => ShownAllowed(i.children, Append(path, i.name))

\* C20: while the user logged in is not an admin, the tree the Data
\* Explorer shows holds only schemas, tables and columns of
\* USER_ALLOWED_SCHEMA.
NonAdminTreeAllowed ==
    (IsAuthenticated /\ ~IsAdmin /\ Rendered.page = "DataExplorer" /\ ~isLoadingSchema)
        => ShownAllowed(schemaTree, <<>>)

\* ------------------------------ SavedPromptsProvider of SavedPromptsContext
\* What the user may type as a prompt.
PromptContents == { <<>>, <<" ">>, <<"a">>, <<"A">>, <<" ", "a">>, <<"b", " ">> }

\* The ids savePrompt can have given: `prompt-${Date.now()}`.
PromptIds == 1..MaxDate

\* prompts.some(p => p.content.toLowerCase() === lowered)
SomeContentIs(lowered) ==
    \E i \in DOMAIN prompts : ToLowerCase(prompts[i].content) = lowered

\* isPromptSaved(content)
IsPromptSaved(content) == SomeContentIs(ToLowerCase(Trim(content)))

InitPrompts == PromptsIdle

\* savePrompt(content), Date.now() returning t.
SavePrompt(content, t) ==
    LET trimmed == Trim(content)
    IN  /\ Len(prompts) < MaxPrompts
        /\ t >= dateNow
        /\ IF trimmed = <<>> \/ SomeContentIs(ToLowerCase(trimmed))
           THEN UNCHANGED promptVars
           ELSE /\ prompts' = << [id |-> t, content |-> trimmed] >> \o prompts
                /\ dateNow' = t
        /\ UNCHANGED outsidePrompts

\* deletePrompt(id)
DeletePrompt(id) ==
    /\ prompts' = SelectSeq(prompts, LAMBDA q : q.id # id)
    /\ UNCHANGED <<outsidePrompts, dateNow>>

\* updatePrompt(id, content)
UpdatePrompt(id, content) ==
    LET trimmed == Trim(content)
    IN  /\ IF trimmed = <<>>
           THEN UNCHANGED prompts
           ELSE prompts' = [i \in DOMAIN prompts |->
                               IF prompts[i].id = id
                               THEN [prompts[i] EXCEPT !.content = trimmed]
                               ELSE prompts[i]]
        /\ UNCHANGED <<outsidePrompts, dateNow>>

InitPromptsSpec ==
    /\ ChatIdle /\ CredIdle /\ PageIdle /\ McpIdle /\ AuthIdle /\ SchemaIdle
    /\ DashIdle
    /\ InitPrompts

NextPrompts ==
    \/ \E content \in PromptContents, t \in PromptIds : SavePrompt(content, t)
    \/ \E id \in PromptIds : DeletePrompt(id)
    \/ \E id \in PromptIds, content \in PromptContents : UpdatePrompt(id, content)

SpecPrompts == InitPromptsSpec /\ [][NextPrompts]_vars

\* ------------------------------------ Properties of DashboardDataProvider
\* The query named q is part of a load of everything with names ds.
Loads(q, ds) ==
    /\ ds.salesforceConnName # NoConn
    /\ q = "Tickets by Priority" => ds.zendeskConnName # NoConn
    /\ q = "Jobs by Health" => ds.snowflakeConnName # NoConn

\* The connections whose names the fetch of query q uses.
SourcesOf(q) ==
    CASE q = "Customer Accounts"   -> {"salesforceConnName", "zendeskConnName"}
      [] q = "Open Opportunities"  -> {"salesforceConnName"}
      [] q = "Tickets by Priority" -> {"zendeskConnName"}
      [] q = "Jobs by Health"      -> {"snowflakeConnName"}

CustomerFetches == {f \in BagToSet(fetches) : f.kind = "customerHealth"}
LoadMores ==
    [f \in {g \in CustomerFetches : g.loadMore} |-> fetches[f]]

RECURSIVE RowsOf(_)
\* The rows of a list of pages.
RowsOf(pages) ==
    IF pages = <<>> THEN 0 ELSE pages[1].rows + RowsOf(Tail(pages))

EqualIgnoringCase(a, b) ==
    /\ Len(a) = Len(b)
    /\ \A i \in 1..Len(a) :
          \/ a[i] = b[i]
          \/ \E k \in 1..26 : {a[i], b[i]} = {UpperCase[k], LowerCase[k]}

\* C29: after any sequence of savePrompt, updatePrompt and deletePrompt the
\* list holds no empty prompt and no two prompts that are equal ignoring
\* case, and isPromptSaved(c) is true exactly when some saved prompt equals
\* c, trimmed, ignoring case.
PromptsDistinct ==
    /\ \A i \in DOMAIN prompts : prompts[i].content # <<>>
    /\ \A i, j \in DOMAIN prompts :
          i # j => ~EqualIgnoringCase(prompts[i].content, prompts[j].content)
    /\ \A c \in PromptContents :
          IsPromptSaved(c) <=>
              \E i \in DOMAIN prompts : EqualIgnoringCase(prompts[i].content, Trim(c))

====
